---- MODULE Spec2Model ----
(***************************************************************************)
(* Model of the ansible-lambda modules: the function-lifecycle module      *)
(* (modules/lambda.py), lambda_alias, the legacy multi-resource module     *)
(* (lambda.py), lambda_s3_event with its earlier copy s3_lambda_event, and *)
(* lambda_invoke, each run against a model of the AWS services it calls.   *)
(*                                                                         *)
(* Conventions.  A Python dict is a TLA+ function with string keys and a   *)
(* Python list is a sequence.  A module parameter whose value is None is a *)
(* key that is absent from the params record, and so is a key absent from  *)
(* an API response.  Parameter values the code inspects or builds          *)
(* (function names, role ARNs, versions) are sequences of one-character    *)
(* strings; the other values are atomic strings.  The keys of a dict are   *)
(* strings, which pc and camel_dict_to_snake_dict read letter by letter.   *)
(***************************************************************************)
EXTENDS Integers, Sequences, FiniteSets, TLC

VARIABLES aws, run, nruns, target

vars == <<aws, run, nruns, target>>

-----------------------------------------------------------------------------
(* Bounds *)

MaxVersion == 2      \* version numbers a task asks for: 0..MaxVersion
MaxRuns == 2         \* module runs per behaviour
MaxMemory == 1700    \* memory_size values swept by the validation runs

-----------------------------------------------------------------------------
(* Python values *)

None == [none |-> TRUE]            \* the value None where a dict is expected
EmptyDict == [k \in {} |-> TRUE]   \* dict()

update(a, b) == [k \in DOMAIN a \cup DOMAIN b |-> IF k \in DOMAIN b THEN b[k] ELSE a[k]]

get(d, k, default) == IF k \in DOMAIN d THEN d[k] ELSE default

\* a != b for two .get() results, None being an absent key
differs(a, ka, b, kb) ==
    IF ka \in DOMAIN a /\ kb \in DOMAIN b THEN a[ka] # b[kb]
    ELSE (ka \in DOMAIN a) # (kb \in DOMAIN b)

RECURSIVE str(_)
str(n) ==
    IF n < 0 THEN <<"-">> \o str(-n)
    ELSE IF n < 10
    THEN <<(<<"0", "1", "2", "3", "4", "5", "6", "7", "8", "9">>)[n + 1]>>
    ELSE str(n \div 10) \o str(n % 10)

startswith(s, prefix) ==
    Len(s) >= Len(prefix) /\ SubSeq(s, 1, Len(prefix)) = prefix

RECURSIVE split(_, _)
split(s, sep) ==
    IF \A i \in 1..Len(s) : s[i] # sep THEN <<s>>
    ELSE LET i == CHOOSE k \in 1..Len(s) : s[k] = sep /\ \A j \in 1..(k - 1) : s[j] # sep
         IN  <<SubSeq(s, 1, i - 1)>> \o split(SubSeq(s, i + 1, Len(s)), sep)

RECURSIVE sorted(_)
sorted(s) ==
    IF s = <<>> THEN <<>>
    ELSE LET i == CHOOSE k \in 1..Len(s) : \A j \in 1..Len(s) : s[k] <= s[j]
         IN  <<s[i]>> \o sorted(SubSeq(s, 1, i - 1) \o SubSeq(s, i + 1, Len(s)))

WordChars ==
    {"a", "b", "c", "d", "e", "f", "g", "h", "i", "j", "k", "l", "m",
     "n", "o", "p", "q", "r", "s", "t", "u", "v", "w", "x", "y", "z",
     "A", "B", "C", "D", "E", "F", "G", "H", "I", "J", "K", "L", "M",
     "N", "O", "P", "Q", "R", "S", "T", "U", "V", "W", "X", "Y", "Z",
     "0", "1", "2", "3", "4", "5", "6", "7", "8", "9", "_"}

\* re.search('^[<chars>]+$', s): '$' also matches before one trailing newline
re_search(chars, s) ==
    LET all_in(t) == Len(t) >= 1 /\ \A i \in 1..Len(t) : t[i] \in chars
    IN  \/ all_in(s)
        \/ /\ Len(s) >= 2
           /\ s[Len(s)] = "\n"
           /\ all_in(SubSeq(s, 1, Len(s) - 1))

\* in_range with the step left out
in_range_any_step(x, start, stop, step) ==
    /\ x >= start
    /\ x < stop

\* x in range(start, stop, step), step > 0
in_range(x, start, stop, step) ==
    /\ x >= start
    /\ x < stop
    /\ (x - start) % step = 0

-----------------------------------------------------------------------------
(* Parameter names and their API names *)

\* "".join([token.capitalize() for token in key.split('_')]): the first letter
\* of a token in upper case, its other letters in lower case
pc(key) ==
    LET tolower ==
            [A |-> "a", B |-> "b", C |-> "c", D |-> "d", E |-> "e", F |-> "f",
             G |-> "g", H |-> "h", I |-> "i", J |-> "j", K |-> "k", L |-> "l",
             M |-> "m", N |-> "n", O |-> "o", P |-> "p", Q |-> "q", R |-> "r",
             S |-> "s", T |-> "t", U |-> "u", V |-> "v", W |-> "w", X |-> "x",
             Y |-> "y", Z |-> "z"]
        toupper(ch) ==
            IF \E u \in DOMAIN tolower : tolower[u] = ch
            THEN CHOOSE u \in DOMAIN tolower : tolower[u] = ch ELSE ch
        at(s, i) == SubSeq(s, i, i)
        RECURSIVE join(_, _)
        join(i, first) ==
            IF i > Len(key) THEN ""
            ELSE IF at(key, i) = "_" THEN join(i + 1, TRUE)
            ELSE (IF first THEN toupper(at(key, i))
                  ELSE IF at(key, i) \in DOMAIN tolower THEN tolower[at(key, i)]
                  ELSE at(key, i)) \o join(i + 1, FALSE)
    IN  join(1, TRUE)

\* Python truthiness of module.params.get(k)
truthy(params, k) ==
    /\ k \in DOMAIN params
    /\ IF k \in {"publish", "enabled"} THEN params[k]
       ELSE IF k \in {"timeout", "memory_size", "version", "batch_size"} THEN params[k] # 0
       ELSE IF k \in {"function_name", "role", "function_version", "qualifier", "subnet_ids",
                      "security_group_ids", "code", "lambda_function_configurations"}
       THEN params[k] # <<>>
       ELSE params[k] # ""

set_api_params(params, module_params) ==
    LET given == {k \in module_params : truthy(params, k)}
    IN  [K \in {pc(k) : k \in given} |-> params[CHOOSE k \in given : pc(k) = K]]

-----------------------------------------------------------------------------
(* The AWS services behind the boto3 clients, as far as the modules use    *)
(* them: one Lambda function name, one S3 object, one alias name, one      *)
(* event source mapping, one resource policy and one bucket notification   *)
(* configuration.  A function or alias without a description has no        *)
(* Description key.  A call returns                                        *)
(*   ok    whether it returned a response                                  *)
(*   exc   the exception class when it raised: "ClientError" (the service  *)
(*         refused) or "ParamValidationError" (botocore refused the        *)
(*         arguments before sending anything)                              *)
(*   code  e.response['Error']['Code'] of a ClientError                    *)
(*   aws   the state of the services after the call                        *)
(*   resp  the response                                                    *)

NoObject == "absent"                       \* no object under the S3 key
Sha256B64 == [c1 |-> "h1", c2 |-> "h2"]    \* base64(sha256(content))

Ok(a, resp) ==
    [ok |-> TRUE, exc |-> "", code |-> "", aws |-> a, resp |-> update(resp, [ResponseMetadata |-> "200"])]
Err(a, code) ==
    [ok |-> FALSE, exc |-> "ClientError", code |-> code, aws |-> a, resp |-> EmptyDict]
Invalid(a) ==
    [ok |-> FALSE, exc |-> "ParamValidationError", code |-> "", aws |-> a, resp |-> EmptyDict]

\* the arguments botocore's service model requires and allows
ApiShape ==
    [get_function_configuration |->
        [required |-> {"FunctionName"}, optional |-> {"Qualifier"}],
     create_function |->
        [required |-> {"FunctionName", "Runtime", "Role", "Handler", "Code"},
         optional |-> {"Description", "Timeout", "MemorySize", "Publish", "VpcConfig"}],
     update_function_code |->
        [required |-> {"FunctionName"},
         optional |-> {"ZipFile", "S3Bucket", "S3Key", "S3ObjectVersion", "Publish"}],
     update_function_configuration |->
        [required |-> {"FunctionName"},
         optional |-> {"Role", "Handler", "Description", "Timeout", "MemorySize", "VpcConfig"}],
     publish_version |->
        [required |-> {"FunctionName"}, optional |-> {"CodeSha256", "Description"}],
     delete_function |->
        [required |-> {"FunctionName"}, optional |-> {"Qualifier"}],
     get_alias |-> [required |-> {"FunctionName", "Name"}, optional |-> {}],
     create_alias |->
        [required |-> {"FunctionName", "Name", "FunctionVersion"},
         optional |-> {"Description"}],
     update_alias |->
        [required |-> {"FunctionName", "Name"},
         optional |-> {"FunctionVersion", "Description"}],
     delete_alias |-> [required |-> {"FunctionName", "Name"}, optional |-> {}],
     get_event_source_mapping |-> [required |-> {"UUID"}, optional |-> {}],
     create_event_source_mapping |->
        [required |-> {"EventSourceArn", "FunctionName", "StartingPosition"},
         optional |-> {"Enabled", "BatchSize"}],
     delete_event_source_mapping |-> [required |-> {"UUID"}, optional |-> {}],
     get_policy |-> [required |-> {"FunctionName"}, optional |-> {"Qualifier"}],
     add_permission |->
        [required |-> {"FunctionName", "StatementId", "Action", "Principal"},
         optional |-> {"SourceArn", "SourceAccount", "Qualifier"}],
     remove_permission |->
        [required |-> {"FunctionName", "StatementId"}, optional |-> {"Qualifier"}],
     get_bucket_notification_configuration |-> [required |-> {"Bucket"}, optional |-> {}],
     put_bucket_notification_configuration |->
        [required |-> {"Bucket", "NotificationConfiguration"}, optional |-> {}],
     invoke |->
        [required |-> {"FunctionName"},
         optional |-> {"InvocationType", "LogType", "ClientContext", "Payload", "Qualifier"}]]

ValidArgs(api, args) ==
    /\ ApiShape[api].required \subseteq DOMAIN args
    /\ DOMAIN args \subseteq ApiShape[api].required \cup ApiShape[api].optional

NextVersionNumber(a) ==
    IF a.versions = {} THEN 1
    ELSE (CHOOSE v \in a.versions : \A w \in a.versions : w <= v) + 1

VpcOf(args) ==
    IF "VpcConfig" \in DOMAIN args /\ get(args.VpcConfig, "SubnetIds", <<>>) # <<>>
    THEN [VpcConfig |-> [SubnetIds |-> args.VpcConfig.SubnetIds,
                         SecurityGroupIds |-> get(args.VpcConfig, "SecurityGroupIds", <<>>)]]
    ELSE EmptyDict

Without(d, k) == [x \in DOMAIN d \ {k} |-> d[x]]

Only(d, ks) == [x \in DOMAIN d \cap ks |-> d[x]]

\* the deployment package a Code argument names: the zip file given, or the S3 object
CodeOf(a, code) ==
    IF "ZipFile" \in DOMAIN code THEN code.ZipFile
    ELSE IF {"S3Bucket", "S3Key"} \subseteq DOMAIN code THEN a.s3
    ELSE NoObject

aws_get_function_configuration(a, args) ==
    IF a.fn = None THEN Err(a, "ResourceNotFoundException")
    ELSE IF "Qualifier" \in DOMAIN args
            /\ args.Qualifier \notin {str(v) : v \in a.versions}
         THEN Err(a, "ResourceNotFoundException")
    ELSE Ok(a, a.fn)

aws_create_function(a, args) ==
    IF a.fn # None THEN Err(a, "ResourceConflictException")
    ELSE IF CodeOf(a, args.Code) = NoObject THEN Err(a, "InvalidParameterValueException")
    ELSE LET cfg == update(
                 update([FunctionName |-> args.FunctionName,
                         Runtime |-> args.Runtime,
                         Role |-> args.Role,
                         Handler |-> args.Handler,
                         Timeout |-> get(args, "Timeout", 3),
                         MemorySize |-> get(args, "MemorySize", 128),
                         CodeSha256 |-> Sha256B64[CodeOf(a, args.Code)]],
                        Only(args, {"Description"})),
                 VpcOf(args))
         IN  Ok([a EXCEPT !.fn = cfg,
                          !.versions = IF get(args, "Publish", FALSE) THEN {1} ELSE {}],
                cfg)

aws_update_function_code(a, args) ==
    IF a.fn = None THEN Err(a, "ResourceNotFoundException")
    ELSE IF CodeOf(a, args) = NoObject THEN Err(a, "InvalidParameterValueException")
    ELSE Ok([a EXCEPT !.fn.CodeSha256 = Sha256B64[CodeOf(a, args)],
                      !.versions = IF get(args, "Publish", FALSE)
                                   THEN @ \cup {NextVersionNumber(a)} ELSE @],
            [a.fn EXCEPT !.CodeSha256 = Sha256B64[CodeOf(a, args)]])

aws_update_function_configuration(a, args) ==
    IF a.fn = None THEN Err(a, "ResourceNotFoundException")
    ELSE LET plain == update(a.fn, Only(args, {"Role", "Handler", "Description",
                                               "Timeout", "MemorySize"}))
             cfg == IF "VpcConfig" \in DOMAIN args
                    THEN update(Without(plain, "VpcConfig"), VpcOf(args))
                    ELSE plain
         IN  Ok([a EXCEPT !.fn = cfg], cfg)

aws_publish_version(a, args) ==
    IF a.fn = None THEN Err(a, "ResourceNotFoundException")
    ELSE IF "CodeSha256" \in DOMAIN args /\ args.CodeSha256 # a.fn.CodeSha256
         THEN Err(a, "CodeVerificationFailedException")
    ELSE Ok([a EXCEPT !.versions = @ \cup {NextVersionNumber(a)}], a.fn)

aws_delete_function(a, args) ==
    IF a.fn = None THEN Err(a, "ResourceNotFoundException")
    ELSE IF "Qualifier" \in DOMAIN args
         THEN IF args.Qualifier \in {str(v) : v \in a.versions}
              THEN Ok([a EXCEPT !.versions =
                           {v \in @ : str(v) # args.Qualifier}], EmptyDict)
              ELSE Err(a, "ResourceNotFoundException")
    ELSE Ok([a EXCEPT !.fn = None, !.versions = {}], EmptyDict)

aws_get_alias(a, args) ==
    IF a.alias = None THEN Err(a, "ResourceNotFoundException") ELSE Ok(a, a.alias)

aws_create_alias(a, args) ==
    IF a.alias # None THEN Err(a, "ResourceConflictException")
    ELSE Ok([a EXCEPT !.alias = Only(args, {"Name", "FunctionVersion", "Description"})],
            Only(args, {"Name", "FunctionVersion", "Description"}))

aws_update_alias(a, args) ==
    IF a.alias = None THEN Err(a, "ResourceNotFoundException")
    ELSE Ok([a EXCEPT !.alias = update(@, Only(args, {"FunctionVersion", "Description"}))],
            update(a.alias, Only(args, {"FunctionVersion", "Description"})))

aws_delete_alias(a, args) ==
    IF a.alias = None THEN Err(a, "ResourceNotFoundException")
    ELSE Ok([a EXCEPT !.alias = None], EmptyDict)

\* the event source mapping is known by the UUID the service gave it; a client
\* that does not check the arguments passes the identifier on under the name
\* Uuid that the module gives it
aws_get_event_source_mapping(a, args) ==
    IF a.mapping = None \/ a.mapping.UUID # get(args, "UUID", get(args, "Uuid", ""))
    THEN Err(a, "ResourceNotFoundException") ELSE Ok(a, a.mapping)

aws_create_event_source_mapping(a, args) ==
    IF a.mapping # None THEN Err(a, "ResourceConflictException")
    ELSE Ok([a EXCEPT !.mapping = update(args, [UUID |-> "uuid-1"])],
            update(args, [UUID |-> "uuid-1"]))

aws_delete_event_source_mapping(a, args) ==
    IF a.mapping = None \/ a.mapping.UUID # get(args, "UUID", get(args, "Uuid", ""))
    THEN Err(a, "ResourceNotFoundException")
    ELSE Ok([a EXCEPT !.mapping = None], a.mapping)

\* the resource policy is a sequence of statements; its JSON text is kept parsed
json_dumps(value) == [json |-> value]
json_loads(text) == text.json

aws_get_policy(a, args) ==
    IF a.fn = None \/ a.policy = <<>> THEN Err(a, "ResourceNotFoundException")
    ELSE Ok(a, [Policy |-> json_dumps([Version |-> "2012-10-17", Statement |-> a.policy])])

aws_add_permission(a, args) ==
    IF a.fn = None THEN Err(a, "ResourceNotFoundException")
    ELSE IF \E i \in 1..Len(a.policy) : a.policy[i].Sid = args.StatementId
    THEN Err(a, "ResourceConflictException")
    ELSE Ok([a EXCEPT !.policy = Append(@, [Sid |-> args.StatementId,
                                            Action |-> args.Action,
                                            Principal |-> args.Principal])],
            [Statement |-> json_dumps([Sid |-> args.StatementId, Action |-> args.Action,
                                       Principal |-> args.Principal])])

aws_remove_permission(a, args) ==
    IF a.fn = None \/ ~\E i \in 1..Len(a.policy) : a.policy[i].Sid = args.StatementId
    THEN Err(a, "ResourceNotFoundException")
    ELSE Ok([a EXCEPT !.policy = SelectSeq(@, LAMBDA st : st.Sid # args.StatementId)],
            EmptyDict)

aws_get_bucket_notification_configuration(a, args) == Ok(a, a.notification)

aws_put_bucket_notification_configuration(a, args) ==
    IF ~(DOMAIN args.NotificationConfiguration \subseteq
             {"TopicConfigurations", "QueueConfigurations", "LambdaFunctionConfigurations"})
    THEN Invalid(a)
    ELSE Ok([a EXCEPT !.notification = args.NotificationConfiguration], EmptyDict)

\* client.<api>(**args)
\* client.invoke: the body of the response (Payload) is the JSON text of the
\* function's result for RequestResponse, and empty for Event and DryRun; the
\* log tail is returned for RequestResponse only
aws_invoke(a, args) ==
    IF a.fn = None THEN Err(a, "ResourceNotFoundException")
    ELSE IF "Qualifier" \in DOMAIN args /\ args.Qualifier \notin {str(v) : v \in a.versions}
    THEN Err(a, "ResourceNotFoundException")
    ELSE LET type == get(args, "InvocationType", "RequestResponse")
         IN  IF type = "RequestResponse"
             THEN Ok(a, update([StatusCode |-> 200, Payload |-> json_dumps("result")],
                               IF get(args, "LogType", "") = "Tail"
                               THEN [LogResult |-> "log"] ELSE EmptyDict))
             ELSE Ok(a, [StatusCode |-> IF type = "Event" THEN 202 ELSE 204,
                         Payload |-> [text |-> ""]])

client(api, a, args) ==
    IF ~ValidArgs(api, args) THEN Invalid(a)
    ELSE CASE api = "get_function_configuration" -> aws_get_function_configuration(a, args)
           [] api = "create_function" -> aws_create_function(a, args)
           [] api = "update_function_code" -> aws_update_function_code(a, args)
           [] api = "update_function_configuration" -> aws_update_function_configuration(a, args)
           [] api = "publish_version" -> aws_publish_version(a, args)
           [] api = "delete_function" -> aws_delete_function(a, args)
           [] api = "get_alias" -> aws_get_alias(a, args)
           [] api = "create_alias" -> aws_create_alias(a, args)
           [] api = "update_alias" -> aws_update_alias(a, args)
           [] api = "delete_alias" -> aws_delete_alias(a, args)
           [] api = "get_event_source_mapping" -> aws_get_event_source_mapping(a, args)
           [] api = "create_event_source_mapping" -> aws_create_event_source_mapping(a, args)
           [] api = "delete_event_source_mapping" -> aws_delete_event_source_mapping(a, args)
           [] api = "get_policy" -> aws_get_policy(a, args)
           [] api = "add_permission" -> aws_add_permission(a, args)
           [] api = "remove_permission" -> aws_remove_permission(a, args)
           [] api = "get_bucket_notification_configuration" ->
                  aws_get_bucket_notification_configuration(a, args)
           [] api = "put_bucket_notification_configuration" ->
                  aws_put_bucket_notification_configuration(a, args)
           [] api = "invoke" -> aws_invoke(a, args)

\* S3Transfer(client).upload_file(local_path, bucket, key), the file holding `content`
aws_upload_file(a, content) == Ok([a EXCEPT !.s3 = content], EmptyDict)

-----------------------------------------------------------------------------
(* A run of a module.  `run` is the run in progress or just finished:      *)
(*   pc       the statement the run is at                                  *)
(*   status   "running", then "exit" (exit_json), "fail" (fail_json) or    *)
(*            "crash" (an exception nothing catches)                       *)
(*   calls    the AWS calls made so far, in order                          *)
(*   msg      the fixed text of the fail_json message, without the fields  *)
(*            formatted into it; exc the error code or exception class     *)
(*   fault    the API whose call raises a ClientError in this run, if any  *)
(*   iam_user whether the credentials are an IAM user's (iam get_user      *)
(*            raises a ClientError when they are not)                      *)
(*   parameter_validation                                                  *)
(*            whether the client checks the arguments of a call against    *)
(*            its service model before sending them, as a boto3 client     *)
(*            does unless it is configured not to                          *)
(*   keys_order                                                            *)
(*            the orders in which Python yields the keys of the dicts of   *)
(*            the task, each dict having its own, as far as a result       *)
(*            depends on them (see check_sub_params)                       *)
(*   results, facts, changed, api_params, current_state, account_id         *)
(*            the variables of the same names in the code                  *)
(*   before   the AWS state the run started from                           *)
(*   repeat   whether the run repeats the run before it; `first` is then   *)
(*            how that run ended                                           *)

NoFault == "none"

Idle == [status |-> "idle"]

NoAws ==
    [fn |-> None, versions |-> {}, s3 |-> NoObject, alias |-> None, mapping |-> None,
     policy |-> <<>>, notification |-> EmptyDict]

Context(module, input, a, repeat, first) ==
    [module |-> module, input |-> input, params |-> input[1], check_mode |-> input[2],
     fault |-> input[3].fault, iam_user |-> input[3].iam_user,
     parameter_validation |-> input[3].parameter_validation,
     keys_order |-> input[3].keys_order,
     pc |-> "start", status |-> "running", calls |-> <<>>, msg |-> "", exc |-> "",
     changed |-> FALSE, results |-> EmptyDict, facts |-> None, account_id |-> <<>>,
     api_params |-> EmptyDict, current_state |-> "",
     before |-> a, repeat |-> repeat, first |-> first]

At(module, label) == run.status = "running" /\ run.module = module /\ run.pc = label

Ended == run.status \in {"exit", "fail", "crash"}

goto(c, label) == [c EXCEPT !.pc = label]

fail_json(c, msg, exc) == [c EXCEPT !.status = "fail", !.pc = "done", !.msg = msg, !.exc = exc]

crash(c, exc) == [c EXCEPT !.status = "crash", !.pc = "done", !.exc = exc]

exit_json(c) == [c EXCEPT !.status = "exit", !.pc = "done"]

Record(c, api, args) == [c EXCEPT !.calls = Append(@, [api |-> api, args |-> args])]

Raises(c, api, r) == c.fault = api \/ ~r.ok

Raised(c, api, r) == IF c.fault = api THEN "AccessDeniedException" ELSE r.code

\* try: results = client.<api>(**args); changed = True
\* except ClientError as e: fail_json(msg.format(e))
ClientCall(c, api, args, r, msg, next) ==
    IF Raises(c, api, r)
    THEN fail_json(Record(c, api, args), msg, Raised(c, api, r))
    ELSE [Record(c, api, args) EXCEPT !.results = r.resp, !.changed = TRUE, !.pc = next]

AwsAfter(c, api, r) == IF Raises(c, api, r) THEN aws ELSE r.aws

-----------------------------------------------------------------------------
(* modules/lambda.py *)

MIN_MEMORY_SIZE == 2 * 64
MAX_MEMORY_SIZE == 24 * 64

LocalFiles == [pkg1 |-> "c1", pkg2 |-> "c2"]     \* local paths that are files, and their content

ArnAwsIam == <<"a", "r", "n", ":", "a", "w", "s", ":", "i", "a", "m", ":">>   \* 'arn:aws:iam:'

\* 'arn:aws:iam::12:user/u', the Arn iam get_user returns for the caller
CallerArn == ArnAwsIam \o <<":", "1", "2", ":", "u", "s", "e", "r", "/", "u">>

\* 'arn:aws:iam::{0}:role/{1}'.format(account_id, role)
RoleArn(account_id, role) ==
    ArnAwsIam \o <<":">> \o account_id \o <<":", "r", "o", "l", "e", "/">> \o role

\* get_user()['User']['Arn'].split(':')[4], '' when that raises
account_id_of(iam_user, arn) ==
    IF ~iam_user \/ Len(split(arn, ":")) < 5 THEN <<>> ELSE split(arn, ":")[5]

AWSConnection(c) ==
    IF c.fault = "boto3_conn"
    THEN fail_json(c, "Unable to connect, authorize or access resource", "AccessDeniedException")
    ELSE [Record(c, "get_user", EmptyDict) EXCEPT
              !.account_id = account_id_of(c.iam_user, CallerArn),
              !.pc = "validate_params"]

validate_params(c) ==
    IF ~re_search(WordChars \cup {"-", ":"}, c.params.function_name)
    THEN fail_json(c, "Function name is invalid", "")
    ELSE IF Len(c.params.function_name) > 64
    THEN fail_json(c, "Function name exceeds 64 character limit", "")
    ELSE IF c.params.local_path \notin DOMAIN LocalFiles       \* os.path.isfile
    THEN fail_json(c, "Invalid local file path for deployment package", "")
    ELSE IF c.params.state = "present" /\ c.params.version > 0
    THEN fail_json(c, "Cannot specify a version with state='present'.", "")
    ELSE IF ~in_range(c.params.memory_size, MIN_MEMORY_SIZE, MAX_MEMORY_SIZE + 1, 64)
    THEN fail_json(c, "Parameter \"memory_size\" must be between 128 and 1536 and be a multiple of 64.", "")
    ELSE IF ~startswith(c.params.role, ArnAwsIam)
    THEN [c EXCEPT !.params.role = RoleArn(c.account_id, c.params.role),
                   !.pc = "get_lambda_config"]
    ELSE goto(c, "get_lambda_config")

\* S3Transfer(client).upload_file(local_path, s3_bucket, s3_key)
upload_to_s3(c, r, next) ==
    LET args == [LocalPath |-> c.params.local_path, Bucket |-> c.params.s3_bucket,
                 Key |-> c.params.s3_key]
    IN  IF Raises(c, "upload_file", r)
        THEN fail_json(Record(c, "upload_file", args), "Error uploading package to s3",
                       Raised(c, "upload_file", r))
        ELSE goto(Record(c, "upload_file", args), next)

get_local_package_hash(params) == Sha256B64[LocalFiles[params.local_path]]

\* get_lambda_config_params without the Qualifier
get_lambda_config_params_unqualified(params) == [FunctionName |-> params.function_name]

get_lambda_config_params(params) ==
    update([FunctionName |-> params.function_name],
           IF params.version > 0 THEN [Qualifier |-> str(params.version)] ELSE EmptyDict)

\* get_lambda_config and the branch of lambda_function on (state, current_state)
get_lambda_config(c, r) ==
    LET c1 == Record(c, "get_function_configuration", get_lambda_config_params(c.params))
    IN  IF c.fault = "get_function_configuration"
        THEN fail_json(c1, "Error retrieving function configuration", "AccessDeniedException")
        ELSE IF r.ok
        THEN [c1 EXCEPT !.facts = r.resp,
                        !.pc = IF c.params.state = "present" THEN "code" ELSE "delete_function"]
        \* a ParamValidationError has no .response
        ELSE IF r.exc # "ClientError" THEN crash(c1, "AttributeError")
        ELSE IF r.code = "ResourceNotFoundException"
        THEN [c1 EXCEPT !.facts = None,
                        !.pc = IF c.params.state = "present" THEN "create" ELSE "return"]
        ELSE fail_json(c1, "Error retrieving function configuration", r.code)

code_changed(params, facts) == get(facts, pc("code_sha256"), "") # get_local_package_hash(params)

update_function_code_params(params) ==
    update(set_api_params(params, {"function_name"}),
           set_api_params(params, {"s3_bucket", "s3_key", "s3_object_version"}))

config_params == {"role", "handler", "description", "timeout", "memory_size"}
vpc_params == {"subnet_ids", "security_group_ids"}

config_changed(params, facts) ==
    \E param \in config_params : differs(params, param, facts, pc(param))

\* vpc_changed comparing the lists as they are, without sorted()
vpc_changed_in_order(params, facts) ==
    \E param \in vpc_params :
        get(params, param, <<>>) # get(get(facts, "VpcConfig", EmptyDict), pc(param), <<>>)

vpc_changed(params, facts) ==
    \E param \in vpc_params :
        sorted(get(params, param, <<>>))
            # sorted(get(get(facts, "VpcConfig", EmptyDict), pc(param), <<>>))

update_function_configuration_params(params) ==
    update(update(set_api_params(params, {"function_name"}),
                  set_api_params(params, config_params)),
           IF truthy(params, "subnet_ids")
           THEN [VpcConfig |-> set_api_params(params, vpc_params)]
           ELSE [VpcConfig |-> [SubnetIds |-> <<>>, SecurityGroupIds |-> <<>>]])

publish_version_params(params) == set_api_params(params, {"function_name", "description"})

create_function_params(params) ==
    update(update(update(
        set_api_params(params, {"function_name", "runtime", "role", "handler"}),
        set_api_params(params, {"memory_size", "timeout", "description", "publish"})),
        [Code |-> set_api_params(params, {"s3_bucket", "s3_key", "s3_object_version"})]),
        [VpcConfig |-> set_api_params(params, {"subnet_ids", "security_group_ids"})])

delete_function_params(params) ==
    update(set_api_params(params, {"function_name"}),
           IF params.version > 0 THEN [Qualifier |-> str(params.version)] ELSE EmptyDict)

\* camel_dict_to_snake_dict of ansible.module_utils.ec2.  camel_to_snake puts an
\* underscore before a capital that a lower-case letter follows (first_cap_re)
\* or that a lower-case letter or digit precedes (all_cap_re) and lower-cases
\* the name; the values that are dicts, and the dicts in the values that are
\* lists, are converted in the same way.  A dict prints as [k |-> v, ...] and a
\* list as <<v, ...>>.
RECURSIVE camel_dict_to_snake_dict(_)
camel_dict_to_snake_dict(camel_dict) ==
    LET tolower ==
            [A |-> "a", B |-> "b", C |-> "c", D |-> "d", E |-> "e", F |-> "f",
             G |-> "g", H |-> "h", I |-> "i", J |-> "j", K |-> "k", L |-> "l",
             M |-> "m", N |-> "n", O |-> "o", P |-> "p", Q |-> "q", R |-> "r",
             S |-> "s", T |-> "t", U |-> "u", V |-> "v", W |-> "w", X |-> "x",
             Y |-> "y", Z |-> "z"]
        upper == DOMAIN tolower
        lower == {tolower[ch] : ch \in upper}
        digits == {"0", "1", "2", "3", "4", "5", "6", "7", "8", "9"}
        at(s, i) == SubSeq(s, i, i)
        RECURSIVE snake(_, _)
        snake(name, i) ==
            IF i > Len(name) THEN ""
            ELSE IF at(name, i) \notin upper THEN at(name, i) \o snake(name, i + 1)
            ELSE (IF /\ i > 1
                     /\ \/ i < Len(name) /\ at(name, i + 1) \in lower
                        \/ at(name, i - 1) \in lower \cup digits
                  THEN "_" ELSE "")
                 \o tolower[at(name, i)] \o snake(name, i + 1)
        camel_to_snake == [name \in DOMAIN camel_dict |-> snake(name, 1)]
        isdict(v) == SubSeq(ToString(v), 1, 1) = "["
        islist(v) == Len(ToString(v)) > 1 /\ SubSeq(ToString(v), 1, 2) = "<<"
        RECURSIVE value_is_list(_)
        value_is_list(camel_list) ==
            [i \in DOMAIN camel_list |->
                IF isdict(camel_list[i]) THEN camel_dict_to_snake_dict(camel_list[i])
                ELSE IF islist(camel_list[i]) THEN value_is_list(camel_list[i])
                ELSE camel_list[i]]
    IN  [k \in {camel_to_snake[x] : x \in DOMAIN camel_dict} |->
            LET v == camel_dict[CHOOSE x \in DOMAIN camel_dict : camel_to_snake[x] = k]
            IN  IF isdict(v) THEN camel_dict_to_snake_dict(v)
                ELSE IF islist(v) THEN value_is_list(v)
                ELSE v]

\* dict(changed=changed, **dict(results or facts)); dict(None) raises a TypeError
lambda_function_return(c) ==
    IF c.results = EmptyDict /\ c.facts = None THEN crash(c, "TypeError")
    ELSE [c EXCEPT !.results =
             update(IF c.results # EmptyDict THEN c.results ELSE c.facts,
                    [changed |-> c.changed])]
-----------------------------------------------------------------------------
(* Inputs of the runs of modules/lambda.py *)

FnName == <<"f", "n">>
BadName == <<"f", "!">>
LongName == [i \in 1..65 |-> "a"]

RoleFull == ArnAwsIam \o <<":", "1", "2", ":", "r", "o", "l", "e", "/", "r">>   \* 'arn:aws:iam::12:role/r'

LambdaDefaults ==
    [state |-> "present", function_name |-> FnName, runtime |-> "python2.7",
     role |-> RoleFull, handler |-> "index.handler", s3_bucket |-> "bucket",
     s3_key |-> "key.zip", local_path |-> "pkg1", subnet_ids |-> <<>>,
     security_group_ids |-> <<>>, timeout |-> 3, memory_size |-> 128,
     publish |-> FALSE, version |-> 0]

LambdaCoreParams ==
    {update(update(LambdaDefaults, [state |-> st, local_path |-> lp, publish |-> pb]), d) :
        st \in {"present", "absent"}, lp \in {"pkg1", "pkg2"}, pb \in BOOLEAN,
        d \in {EmptyDict, [description |-> "d1"], [description |-> "d2"]}}

LambdaConfigParams ==
    {update(LambdaDefaults, o) :
        o \in {[role |-> <<"r">>],                                      \* 'r'
               \* 'arn:aws:iam::99:role/x'
               [role |-> ArnAwsIam \o <<":", "9", "9", ":", "r", "o", "l", "e", "/", "x">>],
               [handler |-> "other.handler"],
               [timeout |-> 5], [memory_size |-> 192],
               [subnet_ids |-> <<1, 2>>, security_group_ids |-> <<1>>],
               [subnet_ids |-> <<2, 1>>, security_group_ids |-> <<1>>],
               [subnet_ids |-> <<1>>, security_group_ids |-> <<2, 1>>]}}

NoTrouble ==
    [fault |-> NoFault, iam_user |-> TRUE, parameter_validation |-> TRUE, keys_order |-> 0]

\* the (params, check_mode, env) a run of modules/lambda.py is given
LambdaInputs ==
    (LambdaCoreParams \X BOOLEAN \X {NoTrouble})
    \cup (LambdaConfigParams \X BOOLEAN \X {NoTrouble})
    \cup ({update(LambdaDefaults, [state |-> st, version |-> v]) :
              st \in {"present", "absent"}, v \in 0..MaxVersion} \X BOOLEAN \X {NoTrouble})
    \cup ({update(LambdaDefaults, o) :
              o \in {[function_name |-> BadName], [function_name |-> LongName],
                     [function_name |-> <<>>], [local_path |-> "missing"],
                     [memory_size |-> 64], [memory_size |-> 100], [memory_size |-> 1600],
                     [memory_size |-> 64, function_name |-> BadName],
                     [memory_size |-> 1536]}} \X BOOLEAN \X {NoTrouble})
    \cup (LambdaConfigParams \X BOOLEAN \X {[NoTrouble EXCEPT !.iam_user = FALSE]})
    \cup ({p \in LambdaCoreParams : "description" \notin DOMAIN p} \X {FALSE}
            \X {[NoTrouble EXCEPT !.fault = f] :
                   f \in {"boto3_conn", "get_function_configuration", "upload_file",
                          "create_function", "update_function_code",
                          "update_function_configuration", "publish_version",
                          "delete_function"}})

-----------------------------------------------------------------------------
(* The steps of a run of modules/lambda.py *)

Steady == UNCHANGED <<nruns, target>>

\* main, lines 580-585: the module object is built from the task's parameters
LambdaStart ==
    /\ target = "lambda"
    /\ run.status = "idle"
    /\ nruns < MaxRuns
    /\ \E input \in LambdaInputs : run' = Context("lambda", input, aws, FALSE, Idle)
    /\ nruns' = nruns + 1
    /\ UNCHANGED <<aws, target>>

LambdaConnect ==
    /\ At("lambda", "start")
    /\ run' = AWSConnection(run)
    /\ UNCHANGED aws /\ Steady

LambdaValidate ==
    /\ At("lambda", "validate_params")
    /\ run' = validate_params(run)
    /\ UNCHANGED aws /\ Steady

LambdaGetConfig ==
    /\ At("lambda", "get_lambda_config")
    /\ run' = get_lambda_config(run,
                  client("get_function_configuration", aws, get_lambda_config_params(run.params)))
    /\ UNCHANGED aws /\ Steady

\* lines 453-460
LambdaCode ==
    /\ At("lambda", "code")
    /\ IF ~code_changed(run.params, run.facts)
       THEN run' = goto(run, "config") /\ UNCHANGED aws
       ELSE IF run.check_mode
       THEN run' = goto(run, "update_function_code") /\ UNCHANGED aws
       ELSE LET r == aws_upload_file(aws, LocalFiles[run.params.local_path])
            IN  /\ run' = upload_to_s3(run, r, "update_function_code")
                /\ aws' = AwsAfter(run, "upload_file", r)
    /\ Steady

\* lines 462-470
LambdaUpdateCode ==
    /\ At("lambda", "update_function_code")
    /\ IF run.check_mode
       THEN run' = [run EXCEPT !.changed = TRUE, !.pc = "config"] /\ UNCHANGED aws
       ELSE LET args == update_function_code_params(run.params)
                r == client("update_function_code", aws, args)
            IN  /\ run' = ClientCall(run, "update_function_code", args, r,
                                     "Error updating function code", "config")
                /\ aws' = AwsAfter(run, "update_function_code", r)
    /\ Steady

\* lines 472-504
LambdaConfig ==
    /\ At("lambda", "config")
    /\ IF ~(config_changed(run.params, run.facts) \/ vpc_changed(run.params, run.facts))
       THEN run' = goto(run, "publish") /\ UNCHANGED aws
       ELSE IF run.check_mode
       THEN run' = [run EXCEPT !.changed = TRUE, !.pc = "publish"] /\ UNCHANGED aws
       ELSE LET args == update_function_configuration_params(run.params)
                r == client("update_function_configuration", aws, args)
            IN  /\ run' = ClientCall(run, "update_function_configuration", args, r,
                                     "Error updating function config", "publish")
                /\ aws' = AwsAfter(run, "update_function_configuration", r)
    /\ Steady

\* lines 506-515
LambdaPublish ==
    /\ At("lambda", "publish")
    /\ IF ~(run.changed /\ run.params.publish)
       THEN run' = goto(run, "return") /\ UNCHANGED aws
       ELSE IF run.check_mode
       THEN run' = [run EXCEPT !.changed = TRUE, !.pc = "return"] /\ UNCHANGED aws
       ELSE LET args == publish_version_params(run.params)
                r == client("publish_version", aws, args)
            IN  /\ run' = ClientCall(run, "publish_version", args, r,
                                     "Error publishing version", "return")
                /\ aws' = AwsAfter(run, "publish_version", r)
    /\ Steady

\* lines 518-519
LambdaCreateUpload ==
    /\ At("lambda", "create")
    /\ IF run.check_mode
       THEN run' = goto(run, "create_function") /\ UNCHANGED aws
       ELSE LET r == aws_upload_file(aws, LocalFiles[run.params.local_path])
            IN  /\ run' = upload_to_s3(run, r, "create_function")
                /\ aws' = AwsAfter(run, "upload_file", r)
    /\ Steady

\* lines 521-531
LambdaCreate ==
    /\ At("lambda", "create_function")
    /\ IF run.check_mode
       THEN run' = [run EXCEPT !.changed = TRUE, !.pc = "return"] /\ UNCHANGED aws
       ELSE LET args == create_function_params(run.params)
                r == client("create_function", aws, args)
            IN  /\ run' = ClientCall(run, "create_function", args, r, "Error creating", "return")
                /\ aws' = AwsAfter(run, "create_function", r)
    /\ Steady

\* LambdaDelete without the test of module.check_mode
LambdaDeleteUnchecked ==
    /\ At("lambda", "delete_function")
    /\ LET args == delete_function_params(run.params)
           r == client("delete_function", aws, args)
       IN  /\ run' = ClientCall(run, "delete_function", args, r,
                                "Error deleting function", "return")
           /\ aws' = AwsAfter(run, "delete_function", r)
    /\ Steady

\* lines 534-547
LambdaDelete ==
    /\ At("lambda", "delete_function")
    /\ IF run.check_mode
       THEN run' = [run EXCEPT !.changed = TRUE, !.pc = "return"] /\ UNCHANGED aws
       ELSE LET args == delete_function_params(run.params)
                r == client("delete_function", aws, args)
            IN  /\ run' = ClientCall(run, "delete_function", args, r,
                                     "Error deleting function", "return")
                /\ aws' = AwsAfter(run, "delete_function", r)
    /\ Steady

\* line 549 and main, line 597: exit_json(**camel_dict_to_snake_dict(results))
LambdaReturn ==
    /\ At("lambda", "return")
    /\ run' = LET c == lambda_function_return(run)
              IN  IF c.status = "crash" THEN c
                  ELSE exit_json([c EXCEPT !.results = camel_dict_to_snake_dict(c.results)])
    /\ UNCHANGED aws /\ Steady

-----------------------------------------------------------------------------
(* modules/lambda_alias.py *)

\* alias_validate_params without the case of version 0
alias_validate_params_str(c) ==
    IF ~re_search(WordChars \cup {"-", ":"}, c.params.function_name)
    THEN fail_json(c, "Function name is invalid", "")
    ELSE IF Len(c.params.function_name) > 64
    THEN fail_json(c, "Function name exceeds 64 character limit", "")
    ELSE [c EXCEPT !.params.function_version = str(c.params.function_version),
                   !.pc = "get_lambda_alias"]

alias_validate_params(c) ==
    IF ~re_search(WordChars \cup {"-", ":"}, c.params.function_name)
    THEN fail_json(c, "Function name is invalid", "")
    ELSE IF Len(c.params.function_name) > 64
    THEN fail_json(c, "Function name exceeds 64 character limit", "")
    ELSE [c EXCEPT !.params.function_version =
                       IF c.params.function_version = 0
                       THEN <<"$", "L", "A", "T", "E", "S", "T">>     \* '$LATEST'
                       ELSE str(c.params.function_version),
                   !.pc = "get_lambda_alias"]

\* aws_client, get_lambda_alias and the branch of lambda_alias on (state, current_state)
get_lambda_alias(c, r) ==
    LET c1 == Record(c, "get_alias", set_api_params(c.params, {"function_name", "name"}))
    IN  IF c.fault = "boto3_conn"
        THEN fail_json(c, "Can't authorize connection", "AccessDeniedException")
        ELSE IF c.fault = "get_alias"
        THEN fail_json(c1, "Error retrieving function alias", "AccessDeniedException")
        ELSE IF r.ok
        THEN [c1 EXCEPT !.facts = r.resp,
                        !.pc = IF c.params.state = "present" THEN "update_alias" ELSE "delete_alias"]
        ELSE IF r.exc # "ClientError" THEN crash(c1, "AttributeError")
        ELSE IF r.code = "ResourceNotFoundException"
        THEN [c1 EXCEPT !.facts = None,
                        !.pc = IF c.params.state = "present" THEN "create_alias" ELSE "return"]
        ELSE fail_json(c1, "Error retrieving function alias", r.code)

alias_params == {"function_version", "description"}

alias_changed(params, facts) ==
    \E param \in alias_params : differs(params, param, facts, pc(param))

update_alias_params(params) ==
    update(set_api_params(params, {"function_name", "name"}),
           set_api_params(params, alias_params))

create_alias_params(params) ==
    set_api_params(params, {"function_name", "name", "function_version", "description"})

delete_alias_params(params) == set_api_params(params, {"function_name", "name"})

\* dict(changed=changed, ansible_facts=dict(lambda_alias_facts=results or facts))
lambda_alias_return(c) ==
    exit_json([c EXCEPT !.results =
                  [changed |-> c.changed,
                   ansible_facts |-> [lambda_alias_facts |->
                        IF c.results # EmptyDict THEN c.results ELSE c.facts]]])

-----------------------------------------------------------------------------
(* Inputs of the runs of lambda_alias *)

\* the (params, check_mode, env) a run of lambda_alias is given
AliasInputs ==
    LET AliasDefaults ==
            [state |-> "present", function_name |-> FnName, name |-> "Dev",
             function_version |-> 0]
        AliasParams ==
            {update(update(AliasDefaults, [state |-> st, function_version |-> v]), d) :
                st \in {"present", "absent"}, v \in 0..MaxVersion, 
                d \in {EmptyDict, [description |-> "d1"], [description |-> "d2"]}}
            \cup {update(AliasDefaults, [function_name |-> n]) : n \in {BadName, LongName}}
    IN  (AliasParams \X BOOLEAN \X {NoTrouble})
        \cup ({p \in AliasParams : p.function_version = 1 /\ "description" \notin DOMAIN p}
                \X {FALSE}
                \X {[NoTrouble EXCEPT !.fault = f] :
                       f \in {"boto3_conn", "get_alias", "create_alias", "update_alias",
                              "delete_alias"}})

-----------------------------------------------------------------------------
(* The steps of a run of lambda_alias *)

\* main, lines 318-333
AliasStart ==
    /\ target = "lambda_alias"
    /\ run.status = "idle"
    /\ nruns < MaxRuns
    /\ \E input \in AliasInputs : run' = Context("lambda_alias", input, aws, FALSE, Idle)
    /\ nruns' = nruns + 1
    /\ UNCHANGED <<aws, target>>

AliasValidate ==
    /\ At("lambda_alias", "start")
    /\ run' = alias_validate_params(run)
    /\ UNCHANGED aws /\ Steady

AliasGet ==
    /\ At("lambda_alias", "get_lambda_alias")
    /\ run' = get_lambda_alias(run,
                  client("get_alias", aws, set_api_params(run.params, {"function_name", "name"})))
    /\ UNCHANGED aws /\ Steady

\* lines 269-284
AliasUpdate ==
    /\ At("lambda_alias", "update_alias")
    /\ IF ~alias_changed(run.params, run.facts)
       THEN run' = goto(run, "return") /\ UNCHANGED aws
       ELSE IF run.check_mode
       THEN run' = [run EXCEPT !.changed = TRUE, !.pc = "return"] /\ UNCHANGED aws
       ELSE LET args == update_alias_params(run.params)
                r == client("update_alias", aws, args)
            IN  /\ run' = ClientCall([run EXCEPT !.changed = TRUE], "update_alias", args, r,
                                     "Error updating function alias", "return")
                /\ aws' = AwsAfter(run, "update_alias", r)
    /\ Steady

\* AliasCreate without the test of module.check_mode
AliasCreateUnchecked ==
    /\ At("lambda_alias", "create_alias")
    /\ LET args == create_alias_params(run.params)
           r == client("create_alias", aws, args)
       IN  /\ run' = ClientCall(run, "create_alias", args, r,
                                "Error creating function alias", "return")
           /\ aws' = AwsAfter(run, "create_alias", r)
    /\ Steady

\* lines 287-295
AliasCreate ==
    /\ At("lambda_alias", "create_alias")
    /\ IF run.check_mode
       THEN run' = [run EXCEPT !.changed = TRUE, !.pc = "return"] /\ UNCHANGED aws
       ELSE LET args == create_alias_params(run.params)
                r == client("create_alias", aws, args)
            IN  /\ run' = ClientCall(run, "create_alias", args, r,
                                     "Error creating function alias", "return")
                /\ aws' = AwsAfter(run, "create_alias", r)
    /\ Steady

\* lines 298-307
AliasDelete ==
    /\ At("lambda_alias", "delete_alias")
    /\ IF run.check_mode
       THEN run' = [run EXCEPT !.changed = TRUE, !.pc = "return"] /\ UNCHANGED aws
       ELSE LET args == delete_alias_params(run.params)
                r == client("delete_alias", aws, args)
            IN  /\ run' = ClientCall(run, "delete_alias", args, r,
                                     "Error deleting function alias", "return")
                /\ aws' = AwsAfter(run, "delete_alias", r)
    /\ Steady

\* line 309 and main, line 343
AliasReturn ==
    /\ At("lambda_alias", "return")
    /\ run' = lambda_alias_return(run)
    /\ UNCHANGED aws /\ Steady

-----------------------------------------------------------------------------
(* lambda.py, the legacy module: one resource function per `type` *)

\* the parameters of `names` that get_api_params finds missing
missing(params, names) == {k \in names : ~truthy(params, k)}

check_code_params(code_params) ==
    LET given == {"zip_file", "s3_bucket", "s3_key", "s3_object_version"} \cap DOMAIN code_params
    IN  [K \in {pc(k) : k \in given} |-> code_params[CHOOSE k \in given : pc(k) = K]]

\* get_api_params when no required parameter is missing
get_api_params(params, names) ==
    LET given == {k \in names : truthy(params, k)}
    IN  [K \in {pc(k) : k \in given} |->
            LET k == CHOOSE x \in given : pc(x) = K
            IN  IF k = "code" THEN check_code_params(params.code) ELSE params[k]]

required_missing(c) ==
    fail_json(c, "Parameter required for this action on resource type", "")

\* main, lines 741-767
legacy_main(c) ==
    IF truthy(c.params, "function_name")
       /\ ~re_search(WordChars \cup {"-"}, c.params.function_name)
    THEN fail_json(c, "Function name is invalid", "")
    ELSE IF truthy(c.params, "function_name") /\ Len(c.params.function_name) > 64
    THEN fail_json(c, "Function name exceeds 64 character limit", "")
    ELSE IF c.fault = "boto3_conn"
    THEN fail_json(c, "Can't authorize connection", "AccessDeniedException")
    ELSE goto(c, c.params.type)

\* legacy_fetch without the call: the resource is taken to be absent
legacy_fetch_skipped(c, api, args, r, msg, next) ==
    [c EXCEPT !.api_params = args, !.current_state = "absent", !.pc = next]

\* try: results = client.get_...(**api_params); current_state = 'present'
\* except ClientError, e: 'absent' on ResourceNotFoundException, else fail_json
legacy_fetch(c, api, args, r, msg, next) ==
    LET c1 == [Record(c, api, args) EXCEPT !.api_params = args]
    IN  IF r.exc = "ParamValidationError" THEN crash(c1, r.exc)
        ELSE IF c.fault = api THEN fail_json(c1, msg, "AccessDeniedException")
        ELSE IF r.ok THEN [c1 EXCEPT !.results = r.resp, !.current_state = "present", !.pc = next]
        ELSE IF r.code = "ResourceNotFoundException"
        THEN [c1 EXCEPT !.current_state = "absent", !.pc = next]
        ELSE fail_json(c1, msg, r.code)

\* legacy_call with the resource function not returning after its call
legacy_call_again(c, api, args, r, msg) ==
    LET c1 == [Record(c, api, args) EXCEPT !.api_params = args]
    IN  IF r.exc = "ParamValidationError" THEN crash(c1, r.exc)
        ELSE IF c.fault = api THEN fail_json(c1, msg, "AccessDeniedException")
        ELSE IF r.ok THEN [c1 EXCEPT !.results = r.resp, !.changed = TRUE]
        ELSE fail_json(c1, msg, r.code)

\* try: results = client.<api>(**api_params); changed = True
\* except ClientError, e: fail_json
legacy_call(c, api, args, r, msg) ==
    LET c1 == [Record(c, api, args) EXCEPT !.api_params = args]
    IN  IF r.exc = "ParamValidationError" THEN crash(c1, r.exc)
        ELSE IF c.fault = api THEN fail_json(c1, msg, "AccessDeniedException")
        ELSE IF r.ok THEN [c1 EXCEPT !.results = r.resp, !.changed = TRUE, !.pc = "return"]
        ELSE fail_json(c1, msg, r.code)

create_alias_args(c) ==
    update(update(c.api_params, get_api_params(c.params, {"function_version"})),
           get_api_params(c.params, {"description"}))

update_alias_args(c) ==
    update(c.api_params, get_api_params(c.params, {"function_version", "description"}))

create_function_args(c) ==
    update(update(c.api_params,
                  get_api_params(c.params, {"code", "runtime", "role", "handler"})),
           get_api_params(c.params, {"memory_size", "timeout", "description", "publish"}))

update_function_code_args(c) ==
    update(update(c.api_params, get_api_params(c.params, {"code"})),
           get_api_params(c.params, {"publish"}))

update_function_configuration_args(c) ==
    update(c.api_params,
           get_api_params(c.params, {"role", "handler", "description", "timeout", "memory_size"}))

create_event_source_mapping_args(c) ==
    update(get_api_params(c.params, {"function_name", "event_source_arn", "starting_position"}),
           get_api_params(c.params, {"enabled", "batch_size"}))

update_event_source_mapping_args(c) ==
    update(get_api_params(c.params, {"uuid"}),
           get_api_params(c.params, {"function_name", "enabled", "batch_size"}))

add_permission_args(c) ==
    update(update(c.api_params,
                  get_api_params(c.params, {"statement_id", "action", "principal"})),
           get_api_params(c.params, {"source_arn", "source_account"}))

publish_version_args(c) ==
    update(c.api_params, get_api_params(c.params, {"code_sha256", "description"}))

\* mapping_resource, lines 511-554, after its fetch
mapping_apply(c, a) ==
    LET call(api, args) ==
            IF c.parameter_validation THEN client(api, a, args)
            ELSE CASE api = "delete_event_source_mapping" ->
                          aws_delete_event_source_mapping(a, args)
                   [] api = "create_event_source_mapping" ->
                          aws_create_event_source_mapping(a, args)
                   [] api = "update_alias" -> aws_update_alias(a, args)
        do(api, args, msg) ==
            [run |-> legacy_call(c, api, args, call(api, args), msg),
             aws |-> AwsAfter(c, api, call(api, args))]
    IN  IF c.params.state = c.current_state THEN [run |-> goto(c, "return"), aws |-> a]
        ELSE IF c.params.state = "absent"
        THEN do("delete_event_source_mapping", c.api_params, "Error deleting mapping")
        ELSE IF c.params.state = "present"
        THEN IF missing(c.params,
                        {"function_name", "event_source_arn", "starting_position"}) # {}
             THEN [run |-> required_missing(c), aws |-> a]
             ELSE do("create_event_source_mapping", create_event_source_mapping_args(c),
                     "Error creating mapping")
        ELSE IF c.current_state = "absent"
        THEN [run |-> fail_json(c, "Must create event source mapping before updating it.", ""),
              aws |-> a]
        \* the update is sent to update_alias
        ELSE do("update_alias", update_event_source_mapping_args(c), "Error updating mapping")

\* policy_resource, lines 588-597: is the statement in the policy?
statement_state(c, policy_results) ==
    LET statements == json_loads(policy_results.Policy).Statement
        found == {i \in 1..Len(statements) : statements[i].Sid = c.params.statement_id}
    IN  IF found = {} THEN [c EXCEPT !.current_state = "absent", !.pc = "policy_apply"]
        ELSE [c EXCEPT !.results = statements[CHOOSE i \in found : \A j \in found : i <= j],
                       !.current_state = "present", !.pc = "policy_apply"]

\* policy_resource, lines 574-597
policy_fetch(c, args, r) ==
    LET c1 == [Record(c, "get_policy", args) EXCEPT !.api_params = args]
    IN  IF r.exc = "ParamValidationError" THEN crash(c1, r.exc)
        ELSE IF c.fault = "get_policy"
        THEN fail_json(c1, "Error retrieving policy", "AccessDeniedException")
        ELSE IF ~r.ok THEN fail_json(c1, "Error retrieving policy", r.code)
        ELSE IF missing(c.params, {"statement_id"}) # {} THEN required_missing(c1)
        ELSE statement_state(
                 [c1 EXCEPT !.api_params = update(args, get_api_params(c.params, {"statement_id"}))],
                 r.resp)

\* publish_version, lines 649-660; the message of the except branch is
\* 'Error retrieving function: {1}'.format(e), an IndexError
version_fetch(c, args, r) ==
    LET c1 == legacy_fetch(c, "get_function_configuration", args, r,
                           "Error retrieving function", "version_apply")
    IN  IF c1.status = "fail" THEN crash([c1 EXCEPT !.msg = ""], "IndexError") ELSE c1

\* main, lines 769-770
legacy_return(c) ==
    exit_json([c EXCEPT !.results = [ansible_facts |-> [results |-> c.results],
                                     changed |-> c.changed]])

-----------------------------------------------------------------------------
(* Inputs of the runs of the legacy module *)

LegacyDefaults ==
    [state |-> "present", type |-> "code", timeout |-> 3, memory_size |-> 128,
     publish |-> FALSE, enabled |-> TRUE, batch_size |-> 100]

LegacyStates == {"present", "absent", "updated"}

LegacyParams ==
    {update(update(LegacyDefaults, [type |-> "alias", state |-> st, function_name |-> FnName]), o) :
        st \in LegacyStates,
        o \in {EmptyDict, [name |-> "Dev"],
               [name |-> "Dev", function_version |-> <<"1">>],
               [name |-> "Dev", function_version |-> <<"2">>, description |-> "d1"]}}
    \cup
    {update(update(update(LegacyDefaults, [type |-> "code", state |-> st]), o), q) :
        st \in LegacyStates, q \in {EmptyDict, [qualifier |-> <<"1">>]},
        o \in {EmptyDict, [function_name |-> FnName],
               [function_name |-> FnName, code |-> [zip_file |-> "c1"],
                runtime |-> "python2.7", role |-> RoleFull, handler |-> "index.handler"],
               [function_name |-> FnName, code |-> [zip_file |-> "c2"],
                runtime |-> "python2.7", role |-> RoleFull, handler |-> "index.handler",
                publish |-> TRUE, description |-> "d1"]}}
    \cup
    {update(update(update(LegacyDefaults, [type |-> "config", state |-> st]), o), q) :
        st \in LegacyStates, q \in {EmptyDict, [qualifier |-> <<"1">>]},
        o \in {EmptyDict, [function_name |-> FnName],
               [function_name |-> FnName, handler |-> "other.handler", timeout |-> 5]}}
    \cup
    {update(update(LegacyDefaults, [type |-> "mapping", state |-> st]), o) :
        st \in LegacyStates,
        o \in {EmptyDict,
               [uuid |-> "uuid-1", function_name |-> FnName, event_source_arn |-> "arn:stream",
                starting_position |-> "LATEST"]}}
    \cup
    {update(update(update(LegacyDefaults, [type |-> "policy", state |-> st]), o), q) :
        st \in LegacyStates, q \in {EmptyDict, [qualifier |-> <<"1">>]},
        o \in {EmptyDict, [function_name |-> FnName],
               [function_name |-> FnName, statement_id |-> "sid0"],
               [function_name |-> FnName, statement_id |-> "sid1", action |-> "lambda:InvokeFunction",
                principal |-> "s3.amazonaws.com"]}}
    \cup
    {update(update(LegacyDefaults, [type |-> "version", state |-> st]), o) :
        st \in LegacyStates,
        o \in {EmptyDict, [function_name |-> FnName],
               [function_name |-> FnName, code_sha256 |-> "h2", description |-> "d1"],
               [function_name |-> BadName]}}

\* the legacy module does not support check mode; the runs for an event source
\* mapping are also made with a client that does not check the arguments
LegacyInputs ==
    (LegacyParams \X {FALSE} \X {NoTrouble})
    \cup ({p \in LegacyParams : p.type = "mapping"}
            \X {FALSE}
            \X {[NoTrouble EXCEPT !.parameter_validation = FALSE, !.fault = f] : f \in
                   {NoFault, "get_event_source_mapping", "create_event_source_mapping",
                    "delete_event_source_mapping", "update_alias"}})
    \cup ({p \in LegacyParams : "qualifier" \notin DOMAIN p /\ Cardinality(DOMAIN p) > 8}
            \X {FALSE} \X {[NoTrouble EXCEPT !.fault = f] : f \in
                 {"boto3_conn", "get_alias", "create_alias", "update_alias", "delete_alias",
                 "get_function_configuration", "create_function", "delete_function",
                 "update_function_configuration", "get_event_source_mapping",
                 "create_event_source_mapping", "delete_event_source_mapping",
                 "get_policy", "add_permission", "remove_permission", "publish_version"}})

-----------------------------------------------------------------------------
(* The steps of a run of the legacy module *)

LegacyStart ==
    /\ target = "legacy"
    /\ run.status = "idle"
    /\ nruns < MaxRuns
    /\ \E input \in LegacyInputs : run' = Context("legacy", input, aws, FALSE, Idle)
    /\ nruns' = nruns + 1
    /\ UNCHANGED <<aws, target>>

LegacyMain ==
    /\ At("legacy", "start")
    /\ run' = legacy_main(run)
    /\ UNCHANGED aws /\ Steady

\* alias_resource, lines 279-290
LegacyAliasFetch ==
    /\ At("legacy", "alias")
    /\ run' = IF missing(run.params, {"function_name", "name"}) # {}
              THEN required_missing(run)
              ELSE LET args == get_api_params(run.params, {"function_name", "name"})
                   IN  legacy_fetch(run, "get_alias", args, client("get_alias", aws, args),
                                    "Error retrieving alias", "alias_apply")
    /\ UNCHANGED aws /\ Steady

\* alias_resource, lines 292-332
LegacyAliasApply ==
    /\ At("legacy", "alias_apply")
    /\ IF run.params.state = run.current_state
       THEN run' = goto(run, "return") /\ UNCHANGED aws
       ELSE IF run.params.state = "absent"
       THEN LET r == client("delete_alias", aws, run.api_params)
            IN  /\ run' = legacy_call(run, "delete_alias", run.api_params, r, "Error deleting alias")
                /\ aws' = AwsAfter(run, "delete_alias", r)
       ELSE IF run.params.state = "present"
       THEN IF missing(run.params, {"function_version"}) # {}
            THEN run' = required_missing(run) /\ UNCHANGED aws
            ELSE LET r == client("create_alias", aws, create_alias_args(run))
                 IN  /\ run' = legacy_call(run, "create_alias", create_alias_args(run), r,
                                           "Error creating alias")
                     /\ aws' = AwsAfter(run, "create_alias", r)
       ELSE IF run.current_state = "absent"
       THEN run' = fail_json(run, "Must create alias before updating it.", "") /\ UNCHANGED aws
       ELSE LET r == client("update_alias", aws, update_alias_args(run))
            IN  /\ run' = legacy_call(run, "update_alias", update_alias_args(run), r,
                                      "Error updating alias")
                /\ aws' = AwsAfter(run, "update_alias", r)
    /\ Steady

\* lambda_code, lines 352-371
LegacyCodeFetch ==
    /\ At("legacy", "code")
    /\ run' = IF missing(run.params, {"function_name"}) # {}
              THEN required_missing(run)
              ELSE LET args == get_api_params(run.params, {"function_name", "qualifier"})
                   IN  legacy_fetch(run, "get_function_configuration", args,
                                    client("get_function_configuration", aws, args),
                                    "Error retrieving function code", "code_apply")
    /\ UNCHANGED aws /\ Steady

\* lambda_code, lines 373-415
LegacyCodeApply ==
    /\ At("legacy", "code_apply")
    /\ IF run.params.state = run.current_state
       THEN run' = goto(run, "return") /\ UNCHANGED aws
       ELSE IF run.params.state = "absent"
       THEN LET r == client("delete_function", aws, run.api_params)
            IN  /\ run' = legacy_call(run, "delete_function", run.api_params, r,
                                      "Error deleting function code")
                /\ aws' = AwsAfter(run, "delete_function", r)
       ELSE IF run.params.state = "present"
       THEN IF missing(run.params, {"code", "runtime", "role", "handler"}) # {}
            THEN run' = required_missing(run) /\ UNCHANGED aws
            ELSE LET r == client("create_function", aws, create_function_args(run))
                 IN  /\ run' = legacy_call(run, "create_function", create_function_args(run), r,
                                           "Error creating code")
                     /\ aws' = AwsAfter(run, "create_function", r)
       ELSE IF run.current_state = "absent"
       THEN run' = fail_json(run, "Function does not exist--must create before.", "")
            /\ UNCHANGED aws
       ELSE IF missing(run.params, {"code"}) # {}
       THEN run' = required_missing(run) /\ UNCHANGED aws
       ELSE LET r == client("update_function_code", aws, update_function_code_args(run))
            IN  /\ run' = legacy_call(run, "update_function_code", update_function_code_args(run),
                                      r, "Error updating function code code")
                /\ aws' = AwsAfter(run, "update_function_code", r)
    /\ Steady

\* config_details, lines 436-451
LegacyConfigFetch ==
    /\ At("legacy", "config")
    /\ run' = IF missing(run.params, {"function_name"}) # {}
              THEN required_missing(run)
              ELSE LET args == get_api_params(run.params, {"function_name", "qualifier"})
                   IN  legacy_fetch(run, "get_function_configuration", args,
                                    client("get_function_configuration", aws, args),
                                    "Error retrieving function config", "config_apply")
    /\ UNCHANGED aws /\ Steady

\* config_details, lines 453-478
LegacyConfigApply ==
    /\ At("legacy", "config_apply")
    /\ IF run.params.state = run.current_state
       THEN run' = goto(run, "return") /\ UNCHANGED aws
       ELSE IF run.params.state = "absent"
       THEN run' = fail_json(run, "Cannot delete lambda function using resource type 'config'.", "")
            /\ UNCHANGED aws
       ELSE IF run.params.state = "present"
       THEN run' = fail_json(run, "Cannot create lambda function using resource type 'config'.", "")
            /\ UNCHANGED aws
       ELSE IF run.current_state = "absent"
       THEN run' = fail_json(run, "Must create function before updating its config.", "")
            /\ UNCHANGED aws
       ELSE LET r == client("update_function_configuration", aws,
                            update_function_configuration_args(run))
            IN  /\ run' = legacy_call(run, "update_function_configuration",
                                      update_function_configuration_args(run), r,
                                      "Error updating function config")
                /\ aws' = AwsAfter(run, "update_function_configuration", r)
    /\ Steady

\* mapping_resource, lines 498-509.  The fetch sends Uuid where botocore's
\* get_event_source_mapping takes UUID: a client that checks the arguments raises
\* a ParamValidationError, which nothing catches.
LegacyMappingFetch ==
    /\ At("legacy", "mapping")
    /\ run' = IF missing(run.params, {"uuid"}) # {}
              THEN required_missing(run)
              ELSE LET args == get_api_params(run.params, {"uuid"})
                   IN  legacy_fetch(run, "get_event_source_mapping", args,
                                    IF run.parameter_validation
                                    THEN client("get_event_source_mapping", aws, args)
                                    ELSE aws_get_event_source_mapping(aws, args),
                                    "Error retrieving mapping", "mapping_apply")
    /\ UNCHANGED aws /\ Steady

\* mapping_resource, lines 511-554
LegacyMappingApply ==
    /\ At("legacy", "mapping_apply")
    /\ run' = mapping_apply(run, aws).run
    /\ aws' = mapping_apply(run, aws).aws
    /\ Steady

\* policy_resource, lines 574-597
LegacyPolicyFetch ==
    /\ At("legacy", "policy")
    /\ run' = IF missing(run.params, {"function_name"}) # {}
              THEN required_missing(run)
              ELSE LET args == get_api_params(run.params, {"function_name", "qualifier"})
                   IN  policy_fetch(run, args, client("get_policy", aws, args))
    /\ UNCHANGED aws /\ Steady

\* policy_resource, lines 599-629
LegacyPolicyApply ==
    /\ At("legacy", "policy_apply")
    /\ IF run.params.state = run.current_state
       THEN run' = goto(run, "return") /\ UNCHANGED aws
       ELSE IF run.params.state = "absent"
       THEN LET r == client("remove_permission", aws, run.api_params)
            IN  /\ run' = legacy_call(run, "remove_permission", run.api_params, r,
                                      "Error removing policy permission")
                /\ aws' = AwsAfter(run, "remove_permission", r)
       ELSE IF run.params.state = "present"
       THEN IF missing(run.params, {"statement_id", "action", "principal"}) # {}
            THEN run' = required_missing(run) /\ UNCHANGED aws
            ELSE LET r == client("add_permission", aws, add_permission_args(run))
                 IN  /\ run' = legacy_call(run, "add_permission", add_permission_args(run), r,
                                           "Error adding permission to policy")
                     /\ aws' = AwsAfter(run, "add_permission", r)
       ELSE run' = fail_json(run, "Cannot update policy permission. Use 'present' or 'absent' only.", "")
            /\ UNCHANGED aws
    /\ Steady

\* publish_version, lines 649-660
LegacyVersionFetch ==
    /\ At("legacy", "version")
    /\ run' = IF missing(run.params, {"function_name"}) # {}
              THEN required_missing(run)
              ELSE LET args == get_api_params(run.params, {"function_name"})
                   IN  version_fetch(run, args, client("get_function_configuration", aws, args))
    /\ UNCHANGED aws /\ Steady

\* publish_version, lines 662-687
LegacyVersionApply ==
    /\ At("legacy", "version_apply")
    /\ IF run.params.state = run.current_state
       THEN run' = goto(run, "return") /\ UNCHANGED aws
       ELSE IF run.params.state = "absent"
       THEN run' = fail_json(run, "Cannot delete lambda function version using resource type 'version'.", "")
            /\ UNCHANGED aws
       ELSE IF run.params.state = "present"
       THEN run' = fail_json(run, "Cannot create lambda function using resource type 'config'.", "")
            /\ UNCHANGED aws
       ELSE IF run.current_state = "absent"
       THEN run' = fail_json(run, "Must create function before publishing a version.", "")
            /\ UNCHANGED aws
       ELSE LET r == client("publish_version", aws, publish_version_args(run))
            IN  /\ run' = legacy_call(run, "publish_version", publish_version_args(run), r,
                                      "Error updating function version")
                /\ aws' = AwsAfter(run, "publish_version", r)
    /\ Steady

LegacyReturn ==
    /\ At("legacy", "return")
    /\ run' = legacy_return(run)
    /\ UNCHANGED aws /\ Steady

-----------------------------------------------------------------------------
(* modules/lambda_s3_event.py *)

\* check_sub_params: isinstance(value, dict) and isinstance(value, list) are read
\* off the printed form of the value, a dict printing as [k |-> v, ...] and a
\* list as <<v, ...>>; an empty dict and an empty list convert to themselves.
\* When several keys of a dict have the same name after pc, the value kept is
\* that of the key value.keys() yields last, and every dict has its own order
\* of keys. `order` stands for the orders of all the dicts in value: it is a
\* number whose digits are read off one after the other, one digit for each
\* name of each dict converted, the digit saying which of the keys of that name
\* the dict yields last; the digit is order % (the number of these keys) and the
\* digits left are order \div that number, so that every choice of a last key
\* in every dict is the reading of some order.
check_sub_params(value, order) ==
    LET isdict(v) == SubSeq(ToString(v), 1, 1) = "["
        islist(v) == Len(ToString(v)) > 1 /\ SubSeq(ToString(v), 1, 2) = "<<"
        RECURSIVE nth(_, _), convert(_, _), dict(_, _, _, _), list(_, _, _, _)
        nth(keys, n) ==
            LET k == CHOOSE x \in keys : TRUE
            IN  IF n = 0 THEN k ELSE nth(keys \ {k}, n - 1)
        \* for key in value.keys(): sub_params[pc(key)] = check_sub_params(value[key]),
        \* one name at a time: the names still to set, sub_params, the digits left
        dict(v, names, sub_params, n) ==
            IF names = {} THEN [sub_params |-> sub_params, order |-> n]
            ELSE LET K == CHOOSE x \in names : TRUE
                     keys == {k \in DOMAIN v : pc(k) = K}
                     last == nth(keys, n % Cardinality(keys))
                     r == convert(v[last], n \div Cardinality(keys))
                 IN  dict(v, names \ {K},
                          [x \in DOMAIN sub_params \cup {K} |->
                               IF x = K THEN r.sub_params ELSE sub_params[x]],
                          r.order)
        \* for item in value: sub_params.append(check_sub_params(item))
        list(v, i, sub_params, n) ==
            IF i > Len(v) THEN [sub_params |-> sub_params, order |-> n]
            ELSE LET r == convert(v[i], n)
                 IN  list(v, i + 1, Append(sub_params, r.sub_params), r.order)
        convert(v, n) ==
            IF isdict(v) THEN dict(v, {pc(k) : k \in DOMAIN v}, EmptyDict, n)
            ELSE IF islist(v) THEN list(v, 1, <<>>, n)
            ELSE [sub_params |-> v, order |-> n]
    IN  convert(value, order).sub_params

\* get_api_params of lambda_s3_event when no required parameter is missing
event_get_api_params(params, names, order) ==
    LET given == {k \in names : truthy(params, k)}
    IN  [K \in {pc(k) : k \in given} |->
            LET k == CHOOSE x \in given : pc(x) = K
            IN  IF SubSeq(ToString(params[k]), 1, 1) = "\""       \* a basestring
                THEN params[k] ELSE check_sub_params(params[k], order)]

\* lambda_event_notification, lines 174-191, after main's connection
event_fetch(c, args, r) ==
    LET c1 == [Record(c, "get_bucket_notification_configuration", args) EXCEPT
                   !.api_params = args]
        results == Without(r.resp, "ResponseMetadata")
    IN  IF r.exc = "ParamValidationError" THEN crash(c1, r.exc)
        ELSE IF c.fault = "get_bucket_notification_configuration"
        THEN fail_json(c1, "Error retrieving s3_lambda_event", "AccessDeniedException")
        ELSE IF r.ok
        THEN [c1 EXCEPT !.results = Without(results, "LambdaFunctionConfigurations"),
                        !.current_state =
                            IF "LambdaFunctionConfigurations" \in DOMAIN results
                            THEN "present" ELSE "absent",
                        !.pc = "apply"]
        ELSE IF r.code = "ResourceNotFoundException"
        THEN [c1 EXCEPT !.current_state = "absent", !.pc = "apply"]
        ELSE fail_json(c1, "Error retrieving s3_lambda_event", r.code)

\* lines 200 and 211-217, 230-236: the arguments of put_bucket_notification_configuration
remove_notification_args(c) ==
    update(c.api_params, [NotificationConfiguration |-> c.results])

put_notification_args(c) ==
    [NotificationConfiguration |->
         Without(update(update(c.api_params, c.results),
                        event_get_api_params(c.params, {"lambda_function_configurations"},
                                             c.keys_order)),
                 "Bucket"),
     Bucket |-> c.api_params.Bucket]

\* main, lines 291-293
event_return(c) ==
    exit_json([c EXCEPT !.results = [ansible_facts |-> [results |-> c.results],
                                     changed |-> c.changed]])

-----------------------------------------------------------------------------
(* Inputs of the runs of lambda_s3_event *)

FunctionConfigurationA ==
    [id |-> "lambda-package-myBucket-data-log",
     lambda_function_arn |-> "arn:aws:lambda:fn", events |-> <<"s3:ObjectCreated:*">>,
     filter |-> [key |-> [filter_rules |-> <<[name |-> "prefix", value |-> "dev/"]>>]]]

FunctionConfigurationB ==
    [id |-> "other", lambda_function_arn |-> "arn:aws:lambda:fn"]

\* the (params, check_mode, env) a run of lambda_s3_event is given; the module
\* does not support check mode
EventInputs ==
    LET EventParams ==
            {update([state |-> st, bucket |-> "myBucket"], o) :
                st \in LegacyStates,
                o \in {EmptyDict,
                       [lambda_function_configurations |-> <<>>],
                       [lambda_function_configurations |-> <<FunctionConfigurationA>>],
                       [lambda_function_configurations |->
                            <<FunctionConfigurationA, FunctionConfigurationB>>]}}
            \cup {[state |-> "present", bucket |-> ""]}
    IN  (EventParams \X {FALSE} \X {NoTrouble})
        \cup ({p \in EventParams : truthy(p, "lambda_function_configurations")}
                \X {FALSE}
                \X {[NoTrouble EXCEPT !.fault = f] :
                       f \in {"boto3_conn", "get_bucket_notification_configuration",
                              "put_bucket_notification_configuration"}})
        \* two configurations with id and Id, which are both Id for the API, under
        \* each of the four ways the two dicts can order these keys
        \cup ({[state |-> "present", bucket |-> "myBucket",
                lambda_function_configurations |->
                    <<update(FunctionConfigurationA, [Id |-> "another"]),
                      update(FunctionConfigurationB, [Id |-> "a third"])>>]}
                \X {FALSE}
                \X {[NoTrouble EXCEPT !.keys_order = n] : n \in 0..3})

-----------------------------------------------------------------------------
(* The steps of a run of lambda_s3_event *)

\* main, lines 257-270
EventStart ==
    /\ target = "lambda_s3_event"
    /\ run.status = "idle"
    /\ nruns < MaxRuns
    /\ \E input \in EventInputs : run' = Context("lambda_s3_event", input, aws, FALSE, Idle)
    /\ nruns' = nruns + 1
    /\ UNCHANGED <<aws, target>>

\* main, lines 276-287, and lambda_event_notification, lines 174-191
EventFetch ==
    /\ At("lambda_s3_event", "start")
    /\ run' = IF run.fault = "boto3_conn"
              THEN fail_json(run, "Can't authorize connection", "AccessDeniedException")
              ELSE IF missing(run.params, {"bucket"}) # {}
              THEN required_missing(run)
              ELSE LET args == event_get_api_params(run.params, {"bucket"}, run.keys_order)
                   IN  event_fetch(run, args,
                                   client("get_bucket_notification_configuration", aws, args))
    /\ UNCHANGED aws /\ Steady

\* EventApply without the test state == current_state
EventApplyUnconditional ==
    /\ At("lambda_s3_event", "apply")
    /\ IF run.params.state = "absent"
       THEN LET r == client("put_bucket_notification_configuration", aws,
                            remove_notification_args(run))
            IN  /\ run' = legacy_call(run, "put_bucket_notification_configuration",
                                      remove_notification_args(run), r,
                                      "Error removing s3_lambda_event")
                /\ aws' = AwsAfter(run, "put_bucket_notification_configuration", r)
       ELSE IF run.params.state = "updated" /\ run.current_state = "absent"
       THEN run' = fail_json(run, "Must create event notification before updating it.", "")
            /\ UNCHANGED aws
       ELSE IF missing(run.params, {"lambda_function_configurations"}) # {}
       THEN run' = required_missing(run) /\ UNCHANGED aws
       ELSE LET r == client("put_bucket_notification_configuration", aws,
                            put_notification_args(run))
            IN  /\ run' = legacy_call(run, "put_bucket_notification_configuration",
                                      put_notification_args(run), r,
                                      IF run.params.state = "present"
                                      THEN "Error creating s3_lambda_event"
                                      ELSE "Error updating s3_lambda_event")
                /\ aws' = AwsAfter(run, "put_bucket_notification_configuration", r)
    /\ Steady

\* lambda_event_notification, lines 193-242
EventApply ==
    /\ At("lambda_s3_event", "apply")
    /\ IF run.params.state = run.current_state
       THEN run' = goto(run, "return") /\ UNCHANGED aws
       ELSE IF run.params.state = "absent"
       THEN LET r == client("put_bucket_notification_configuration", aws,
                            remove_notification_args(run))
            IN  /\ run' = legacy_call(run, "put_bucket_notification_configuration",
                                      remove_notification_args(run), r,
                                      "Error removing s3_lambda_event")
                /\ aws' = AwsAfter(run, "put_bucket_notification_configuration", r)
       ELSE IF run.params.state = "updated" /\ run.current_state = "absent"
       THEN run' = fail_json(run, "Must create event notification before updating it.", "")
            /\ UNCHANGED aws
       ELSE IF missing(run.params, {"lambda_function_configurations"}) # {}
       THEN run' = required_missing(run) /\ UNCHANGED aws
       ELSE LET r == client("put_bucket_notification_configuration", aws,
                            put_notification_args(run))
            IN  /\ run' = legacy_call(run, "put_bucket_notification_configuration",
                                      put_notification_args(run), r,
                                      IF run.params.state = "present"
                                      THEN "Error creating s3_lambda_event"
                                      ELSE "Error updating s3_lambda_event")
                /\ aws' = AwsAfter(run, "put_bucket_notification_configuration", r)
    /\ Steady

EventReturn ==
    /\ At("lambda_s3_event", "return")
    /\ run' = event_return(run)
    /\ UNCHANGED aws /\ Steady


-----------------------------------------------------------------------------
(* s3_lambda_event.py, the earlier copy of the module.  Its argument spec   *)
(* has no function_name, so module.params['function_name'] of main raises  *)
(* a KeyError before the connection is made, and lambda_event_notification *)
(* of this file is never called.                                           *)

\* main, lines 231-246
S3LambdaEventStart ==
    /\ target = "s3_lambda_event"
    /\ run.status = "idle"
    /\ nruns < MaxRuns
    /\ \E st \in LegacyStates,
          o \in {EmptyDict,
                 [lambda_function_arn |-> "arn:aws:lambda:fn",
                  events |-> <<"s3:ObjectCreated:*">>],
                 [lambda_function_arn |-> "arn:aws:lambda:fn",
                  events |-> <<"s3:ObjectCreated:*">>, id |-> "other",
                  filter |-> [key |-> [filter_rules |->
                                 <<[name |-> "prefix", value |-> "dev/"]>>]]]},
          check_mode \in BOOLEAN :
            run' = Context("s3_lambda_event",
                           <<update([state |-> st, bucket |-> "myBucket"], o),
                             check_mode, NoTrouble>>,
                           aws, FALSE, Idle)
    /\ nruns' = nruns + 1
    /\ UNCHANGED <<aws, target>>

\* main, lines 249-253: module.params['function_name']
S3LambdaEventMain ==
    /\ At("s3_lambda_event", "start")
    /\ run' = crash(run, "KeyError")
    /\ UNCHANGED aws /\ Steady
-----------------------------------------------------------------------------
(* lambda_invoke.py *)

\* invoke_function, lines 153-166
invoke_api_params(c) ==
    LET api_params ==
            update(get_api_params(c.params, {"function_name"}),
                   get_api_params(c.params, {"qualifier", "invocation_type", "log_type",
                                             "client_context", "payload"}))
    IN  IF c.check_mode THEN update(api_params, [InvocationType |-> "DryRun"])
        ELSE api_params

\* invoke_function, lines 168-180, and main, lines 234-237; json.loads of an
\* empty body raises a ValueError
invoke_function(c, args, r) ==
    LET c1 == [Record(c, "invoke", args) EXCEPT !.api_params = args]
    IN  IF r.exc = "ParamValidationError" THEN crash(c1, r.exc)
        ELSE IF c.fault = "invoke"
        THEN fail_json(c1, "Error invoking function", "AccessDeniedException")
        ELSE IF ~r.ok THEN fail_json(c1, "Error invoking function", r.code)
        ELSE IF "json" \notin DOMAIN r.resp.Payload THEN crash(c1, "ValueError")
        ELSE exit_json([c1 EXCEPT !.results =
                           [ansible_facts |->
                                update(r.resp, [Payload |-> json_loads(r.resp.Payload)]),
                            changed |-> FALSE]])

\* main, lines 211-237
invoke_main(c, a) ==
    IF truthy(c.params, "function_name")
       /\ ~re_search(WordChars \cup {"-", ":"}, c.params.function_name)
    THEN fail_json(c, "Function name is invalid", "")
    ELSE IF truthy(c.params, "function_name") /\ Len(c.params.function_name) > 64
    THEN fail_json(c, "Function name exceeds 64 character limit", "")
    ELSE IF c.fault = "boto3_conn"
    THEN fail_json(c, "Can't authorize connection", "AccessDeniedException")
    ELSE IF missing(c.params, {"function_name"}) # {} THEN required_missing(c)
    ELSE invoke_function(c, invoke_api_params(c), client("invoke", a, invoke_api_params(c)))

-----------------------------------------------------------------------------
(* The steps of a run of lambda_invoke *)

\* main, lines 189-205: the parameters, check mode on or off, and the call that fails
InvokeStart ==
    /\ target = "lambda_invoke"
    /\ run.status = "idle"
    /\ nruns < MaxRuns
    /\ \E fn \in {FnName, BadName, LongName, <<>>},
          type \in {"RequestResponse", "Event", "DryRun"},
          o \in {EmptyDict, [log_type |-> "Tail"], [qualifier |-> <<"1">>],
                 [log_type |-> "Tail", payload |-> "{}", client_context |-> "e30="]},
          check_mode \in BOOLEAN,
          fault \in {NoFault, "boto3_conn", "invoke"} :
            run' = Context("lambda_invoke",
                           <<update([function_name |-> fn, invocation_type |-> type], o),
                             check_mode, [NoTrouble EXCEPT !.fault = fault]>>,
                           aws, FALSE, Idle)
    /\ nruns' = nruns + 1
    /\ UNCHANGED <<aws, target>>

Invoke ==
    /\ At("lambda_invoke", "start")
    /\ run' = invoke_main(run, aws)
    /\ UNCHANGED aws /\ Steady

-----------------------------------------------------------------------------
(* The playbook *)

\* the same task is run again at once, with the same input, and no AWS call fails
Repeat ==
    /\ Ended
    /\ ~run.repeat
    /\ run' = Context(run.module,
                      <<run.input[1], run.input[2], [run.input[3] EXCEPT !.fault = NoFault]>>,
                      aws, TRUE, [status |-> run.status, changed |-> run.changed,
                                  fault |-> run.fault])
    /\ UNCHANGED <<aws, nruns, target>>

\* the playbook goes on to its next task
NextTask ==
    /\ Ended
    /\ run' = Idle
    /\ UNCHANGED <<aws, nruns, target>>

\* a function somebody deployed, with a permission and a topic notification
DeployedAws ==
    [NoAws EXCEPT
        !.fn = [FunctionName |-> FnName, Runtime |-> "python2.7", Role |-> RoleFull,
                Handler |-> "index.handler", Timeout |-> 3, MemorySize |-> 128,
                CodeSha256 |-> "h1"],
        !.policy = <<[Sid |-> "sid0", Action |-> "lambda:InvokeFunction",
                      Principal |-> "sns.amazonaws.com"]>>]

Init ==
    /\ \/ target \in {"lambda", "lambda_alias"} /\ aws = NoAws
       \/ target \in {"legacy", "lambda_invoke"} /\ aws \in {NoAws, DeployedAws}
       \/ /\ target \in {"lambda_s3_event", "s3_lambda_event"}
          /\ aws \in {[NoAws EXCEPT !.notification = n] :
                        n \in {EmptyDict,
                               [TopicConfigurations |-> <<"topic">>],
                               [TopicConfigurations |-> <<"topic">>,
                                LambdaFunctionConfigurations |->
                                    check_sub_params(<<FunctionConfigurationB>>, 0)]}}
    /\ run = Idle
    /\ nruns = 0

Next ==
    \/ LambdaStart \/ LambdaConnect \/ LambdaValidate \/ LambdaGetConfig
    \/ LambdaCode \/ LambdaUpdateCode \/ LambdaConfig \/ LambdaPublish
    \/ LambdaCreateUpload \/ LambdaCreate \/ LambdaDelete \/ LambdaReturn
    \/ AliasStart \/ AliasValidate \/ AliasGet \/ AliasUpdate \/ AliasCreate
    \/ AliasDelete \/ AliasReturn
    \/ LegacyStart \/ LegacyMain \/ LegacyAliasFetch \/ LegacyAliasApply
    \/ LegacyCodeFetch \/ LegacyCodeApply \/ LegacyConfigFetch \/ LegacyConfigApply
    \/ LegacyMappingFetch \/ LegacyMappingApply
    \/ LegacyPolicyFetch \/ LegacyPolicyApply
    \/ LegacyVersionFetch \/ LegacyVersionApply \/ LegacyReturn
    \/ EventStart \/ EventFetch \/ EventApply \/ EventReturn
    \/ S3LambdaEventStart \/ S3LambdaEventMain
    \/ InvokeStart \/ Invoke
    \/ Repeat \/ NextTask

Spec == Init /\ [][Next]_vars

-----------------------------------------------------------------------------
(* Runs of modules/lambda.py over every memory_size, for the validation of  *)
(* memory_size                                                             *)

MemoryInputs ==
    ({update(LambdaDefaults, [memory_size |-> m]) : m \in {-128, -64, -1} \cup 0..MaxMemory}
     \cup {update(LambdaDefaults, o) :
              o \in {[state |-> "absent"],
                     [memory_size |-> 64, function_name |-> BadName],
                     [memory_size |-> 64, local_path |-> "missing"],
                     [memory_size |-> 64, version |-> 1],
                     [memory_size |-> 192, local_path |-> "pkg2", publish |-> TRUE]}})
    \X {FALSE} \X {NoTrouble}

MemoryStart ==
    /\ target = "memory_size"
    /\ run.status = "idle"
    /\ nruns < MaxRuns
    /\ \E input \in MemoryInputs : run' = Context("lambda", input, aws, FALSE, Idle)
    /\ nruns' = nruns + 1
    /\ UNCHANGED <<aws, target>>

InitMemory ==
    /\ target = "memory_size"
    /\ aws \in {NoAws, DeployedAws}
    /\ run = Idle
    /\ nruns = 0

NextMemory ==
    \/ MemoryStart \/ LambdaConnect \/ LambdaValidate \/ LambdaGetConfig
    \/ LambdaCode \/ LambdaUpdateCode \/ LambdaConfig \/ LambdaPublish
    \/ LambdaCreateUpload \/ LambdaCreate \/ LambdaDelete \/ LambdaReturn
    \/ NextTask

SpecMemory == InitMemory /\ [][NextMemory]_vars


-----------------------------------------------------------------------------
(* Properties *)

Active == run.status # "idle"

\* the positions in c.calls of the calls to the APIs of `apis`
CallsTo(c, apis) == {i \in 1..Len(c.calls) : c.calls[i].api \in apis}

LambdaCorrective ==
    {"upload_file", "create_function", "update_function_code",
     "update_function_configuration", "publish_version", "delete_function"}

AliasCorrective == {"create_alias", "update_alias", "delete_alias"}

Corrective ==
    LambdaCorrective \cup AliasCorrective
    \cup {"create_event_source_mapping", "delete_event_source_mapping",
          "add_permission", "remove_permission", "put_bucket_notification_configuration"}

\* C1, as the specification states it: in every module a run issues at most
\* one corrective (state-changing) AWS API call.
AtMostOneCorrectiveCall ==
    Active => Cardinality(CallsTo(run, Corrective)) <= 1

\* C1, amended: a run of the legacy module, of lambda_alias or of
\* lambda_s3_event issues at most one corrective call.  A run of
\* modules/lambda.py issues each of its six corrective calls at most once:
\* creating is upload_file then create_function and nothing else, deleting
\* is delete_function alone, and updating is at most upload_file,
\* update_function_code, update_function_configuration and publish_version,
\* four calls.
CorrectiveCallsBounded ==
    Active =>
        IF run.module = "lambda"
        THEN /\ \A api \in LambdaCorrective : Cardinality(CallsTo(run, {api})) <= 1
             /\ CallsTo(run, {"create_function"}) # {}
                    => CallsTo(run, LambdaCorrective \ {"upload_file", "create_function"}) = {}
             /\ CallsTo(run, {"delete_function"}) # {}
                    => Cardinality(CallsTo(run, LambdaCorrective)) = 1
             /\ Cardinality(CallsTo(run, LambdaCorrective)) <= 4
        ELSE Cardinality(CallsTo(run, Corrective)) <= 1

\* a run of modules/lambda.py that uploaded the package, updated the code and
\* the configuration and published a version
FourCorrectiveCalls ==
    /\ Active /\ run.module = "lambda" /\ run.status = "exit"
    /\ Cardinality(CallsTo(run, LambdaCorrective)) = 4

\* C2: modules/lambda.py is idempotent for state=present.  A run that repeats
\* a successful state=present run outside check mode, with the same
\* parameters and package and against the AWS state that run left, makes none
\* of the calls upload_file, create_function, update_function_code,
\* update_function_configuration, publish_version and ends successfully with
\* changed=False.
LambdaPresentIdempotent ==
    (/\ Active /\ run.module = "lambda" /\ run.repeat
     /\ run.first.status = "exit" /\ ~run.check_mode
     /\ run.input[1].state = "present")
    => /\ CallsTo(run, LambdaCorrective \ {"delete_function"}) = {}
       /\ ~run.changed
       /\ Ended => run.status = "exit"

\* the repeated run of a task that omits description, on a function that has
\* one, reports a change again and has sent update_function_configuration
LambdaRepeatChangesAgain ==
    /\ Active /\ run.module = "lambda" /\ run.repeat /\ ~run.check_mode
    /\ run.first.status = "exit" /\ run.first.changed
    /\ run.status = "exit" /\ run.changed
    /\ "description" \notin DOMAIN run.input[1]
    /\ "Description" \in DOMAIN run.before.fn
    /\ CallsTo(run, {"update_function_configuration"}) # {}

\* C3: in check mode modules/lambda.py makes none of its six corrective
\* calls, and leaves the function, its versions and the S3 object as they were.
LambdaCheckModeChangesNothing ==
    (Active /\ run.module = "lambda" /\ run.check_mode)
    => /\ CallsTo(run, LambdaCorrective) = {}
       /\ aws.fn = run.before.fn
       /\ aws.versions = run.before.versions
       /\ aws.s3 = run.before.s3

\* a check-mode run that reported the deletion of an existing function
LambdaCheckModeReportsDelete ==
    /\ Active /\ run.module = "lambda" /\ run.check_mode
    /\ run.input[1].state = "absent"
    /\ run.status = "exit" /\ run.changed
    /\ aws.fn # None

\* the function, or the version, a state=absent run was asked to delete was
\* not there when the run started
NothingToDelete(c) ==
    \/ c.before.fn = None
    \/ c.input[1].version > 0 /\ c.input[1].version \notin c.before.versions

\* C4: deleting is idempotent in modules/lambda.py.  A state=absent run that
\* finds the function (or the version) missing calls no delete_function and
\* returns a result with changed=False; so does the run that repeats a
\* successful delete.
LambdaDeleteIdempotent ==
    (/\ Active /\ run.module = "lambda" /\ run.input[1].state = "absent"
     /\ NothingToDelete(run)
     /\ CallsTo(run, {"get_function_configuration"}) # {}
     /\ run.fault # "get_function_configuration")
    => /\ CallsTo(run, {"delete_function"}) = {}
       /\ Ended => /\ run.status = "exit"
                   /\ "changed" \in DOMAIN run.results
                   /\ ~run.results.changed

\* the run that repeats a successful delete ends in a TypeError without a result
LambdaSecondDeleteCrashes ==
    /\ Active /\ run.module = "lambda" /\ run.repeat /\ ~run.check_mode
    /\ run.input[1].state = "absent"
    /\ run.first.status = "exit" /\ run.first.changed
    /\ run.status = "crash" /\ run.exc = "TypeError"
    /\ CallsTo(run, {"delete_function"}) = {}

\* C5: lambda_alias is idempotent.  A run that repeats a successful run outside
\* check mode, with the same function_name, name, version and description and
\* against the AWS state that run left, calls none of create_alias,
\* update_alias, delete_alias and ends successfully with changed=False.
AliasIdempotent ==
    (/\ Active /\ run.module = "lambda_alias" /\ run.repeat
     /\ run.first.status = "exit" /\ ~run.check_mode)
    => /\ CallsTo(run, AliasCorrective) = {}
       /\ ~run.changed
       /\ Ended => run.status = "exit"

\* the repeated run of a task that omits description, on an alias that has
\* one, reports a change again and has sent update_alias
AliasRepeatChangesAgain ==
    /\ Active /\ run.module = "lambda_alias" /\ run.repeat /\ ~run.check_mode
    /\ run.first.status = "exit" /\ run.first.changed
    /\ run.status = "exit" /\ run.changed
    /\ "description" \notin DOMAIN run.input[1]
    /\ "Description" \in DOMAIN run.before.alias
    /\ CallsTo(run, {"update_alias"}) # {}

\* C6: in check mode lambda_alias calls none of create_alias, update_alias,
\* delete_alias, and leaves the alias as it was.
AliasCheckModeChangesNothing ==
    (Active /\ run.module = "lambda_alias" /\ run.check_mode)
    => /\ CallsTo(run, AliasCorrective) = {}
       /\ aws.alias = run.before.alias

\* a check-mode run that reported the update of an existing alias
AliasCheckModeReportsUpdate ==
    /\ Active /\ run.module = "lambda_alias" /\ run.check_mode
    /\ run.input[1].state = "present"
    /\ run.status = "exit" /\ run.changed
    /\ run.before.alias # None
    /\ aws.alias = run.before.alias

Numerals == <<"1", "2", "3", "4", "5", "6", "7", "8", "9">>

\* C7: in modules/lambda.py, a run with state=present and version > 0 fails in
\* validate_params, having called neither get_function_configuration nor a
\* corrective API; a run with version 0 sends no Qualifier in any call; and a
\* run with state=absent and version > 0 sends Qualifier, equal to the
\* version, in every get_function_configuration and delete_function call.
VersionOnlyForDelete ==
    (Active /\ run.module = "lambda")
    => /\ (run.input[1].state = "present" /\ run.input[1].version > 0)
            => /\ CallsTo(run, LambdaCorrective \cup {"get_function_configuration"}) = {}
               /\ run.pc \in {"start", "validate_params", "done"}
               /\ Ended => run.status = "fail"
       /\ run.input[1].version = 0
            => \A i \in 1..Len(run.calls) : "Qualifier" \notin DOMAIN run.calls[i].args
       /\ (run.input[1].state = "absent" /\ run.input[1].version > 0)
            => \A i \in CallsTo(run, {"get_function_configuration", "delete_function"}) :
                   /\ "Qualifier" \in DOMAIN run.calls[i].args
                   /\ run.calls[i].args.Qualifier = <<Numerals[run.input[1].version]>>

\* a run that deleted version 1 of the function
VersionDeleted ==
    /\ Active /\ run.module = "lambda" /\ run.status = "exit" /\ run.changed
    /\ run.input[1].state = "absent" /\ run.input[1].version = 1
    /\ 1 \in run.before.versions /\ 1 \notin aws.versions
    /\ \E i \in CallsTo(run, {"delete_function"}) : run.calls[i].args.Qualifier = <<"1">>

\* a multiple of 64 between 128 and 1536
AcceptedMemorySize(m) == m >= 128 /\ m <= 1536 /\ m % 64 = 0

MemorySizeMessage ==
    "Parameter \"memory_size\" must be between 128 and 1536 and be a multiple of 64."

FailedOnMemorySize(c) == c.status = "fail" /\ c.msg = MemorySizeMessage

\* every create_function and update_function_configuration call of the run
\* carries an accepted MemorySize
OnlyAcceptedMemorySizeSent(c) ==
    \A i \in CallsTo(c, {"create_function", "update_function_configuration"}) :
        /\ "MemorySize" \in DOMAIN c.calls[i].args
        /\ AcceptedMemorySize(c.calls[i].args.MemorySize)

\* the run failed a check validate_params makes before that of memory_size
FailedEarlierCheck(c) ==
    /\ c.status = "fail"
    /\ c.msg \in {"Function name is invalid",
                  "Function name exceeds 64 character limit",
                  "Invalid local file path for deployment package",
                  "Cannot specify a version with state='present'."}

\* C8: validate_params of modules/lambda.py accepts a memory_size exactly when
\* it is a multiple of 64 between 128 and 1536 inclusive.  For every integer
\* memory_size: a run with a value outside that set fails in validate_params,
\* before any call of get_function_configuration or a corrective API, and no
\* such value reaches create_function or update_function_configuration; and a
\* run that got as far as the check of memory_size (the function name, the
\* local path and the version passed theirs) fails with the memory_size
\* message if and only if the value is outside that set.
MemorySizeValidated ==
    (Active /\ run.module = "lambda")
    => /\ OnlyAcceptedMemorySizeSent(run)
       /\ FailedOnMemorySize(run) => ~AcceptedMemorySize(run.input[1].memory_size)
       /\ (Ended /\ ~AcceptedMemorySize(run.input[1].memory_size))
            => /\ run.status = "fail"
               /\ FailedOnMemorySize(run) \/ FailedEarlierCheck(run)
               /\ CallsTo(run, LambdaCorrective \cup {"get_function_configuration"}) = {}
       /\ (Ended /\ ~FailedEarlierCheck(run))
            => (FailedOnMemorySize(run) <=> ~AcceptedMemorySize(run.input[1].memory_size))

\* a run refused for a memory_size of 1600, a multiple of 64 above the maximum
MemorySizeRefused ==
    /\ Active /\ run.module = "lambda"
    /\ run.input[1].memory_size = 1600
    /\ FailedOnMemorySize(run)
    /\ CallsTo(run, {"get_user"}) # {}

\* C9: after a successful lambda_alias run outside check mode with
\* state=present and version 0 (the default of an omitted version), the alias
\* points to '$LATEST', whether the run created it or found it.
AliasVersionZeroIsLatest ==
    (/\ Active /\ run.module = "lambda_alias" /\ run.status = "exit"
     /\ ~run.check_mode
     /\ run.input[1].state = "present" /\ run.input[1].function_version = 0)
    => /\ aws.alias # None
       /\ aws.alias.FunctionVersion = <<"$", "L", "A", "T", "E", "S", "T">>

\* a run with version 0 that moved an alias from version 1 to '$LATEST'
AliasMovedToLatest ==
    /\ Active /\ run.module = "lambda_alias" /\ run.status = "exit" /\ ~run.check_mode
    /\ run.input[1].state = "present" /\ run.input[1].function_version = 0
    /\ run.before.alias # None
    /\ run.before.alias.FunctionVersion = <<"1">>
    /\ CallsTo(run, {"update_alias"}) # {}
    /\ aws.alias.FunctionVersion = <<"$", "L", "A", "T", "E", "S", "T">>

\* the role ARN a role parameter stands for, in the account of the caller
ExpectedRole(role) ==
    IF startswith(role, ArnAwsIam) THEN role
    ELSE ArnAwsIam \o <<":">> \o split(CallerArn, ":")[5]
             \o <<":", "r", "o", "l", "e", "/">> \o role

\* C10: in modules/lambda.py the Role compared with the existing
\* configuration and sent to create_function or update_function_configuration
\* is the role parameter when that is an ARN, and otherwise
\* 'arn:aws:iam::<account id of the caller>:role/<name>', whatever the outcome
\* of iam get_user.
SimpleRoleNameExpanded ==
    (Active /\ run.module = "lambda")
    => /\ run.pc \in {"get_lambda_config", "code", "update_function_code", "config",
                      "publish", "create", "create_function", "delete_function", "return"}
            => run.params.role = ExpectedRole(run.input[1].role)
       /\ \A i \in CallsTo(run, {"create_function", "update_function_configuration"}) :
              run.calls[i].args.Role = ExpectedRole(run.input[1].role)

\* with credentials that are not an IAM user's, create_function was sent a
\* role ARN without an account id
RoleWithoutAccountSent ==
    /\ Active /\ run.module = "lambda" /\ ~run.iam_user
    /\ \E i \in CallsTo(run, {"create_function"}) :
           run.calls[i].args.Role
               = <<"a", "r", "n", ":", "a", "w", "s", ":", "i", "a", "m", ":", ":", ":",
                   "r", "o", "l", "e", "/", "r">>


\* C11: lambda_invoke sets the log type 'Tail' in the request only if the
\* invocation type is 'RequestResponse'.  For every parameter set, check mode
\* on or off, client.invoke is never called with LogType='Tail' together with
\* an InvocationType other than 'RequestResponse'.
TailOnlyWithRequestResponse ==
    (Active /\ run.module = "lambda_invoke")
    => \A i \in CallsTo(run, {"invoke"}) :
           get(run.calls[i].args, "LogType", "") = "Tail"
           => get(run.calls[i].args, "InvocationType", "RequestResponse") = "RequestResponse"

\* outside check mode, a task with invocation_type=Event and log_type=Tail
\* called client.invoke with InvocationType='Event' and LogType='Tail'
TailSentWithEvent ==
    /\ Active /\ run.module = "lambda_invoke" /\ ~run.check_mode
    /\ run.params.invocation_type = "Event"
    /\ \E i \in CallsTo(run, {"invoke"}) :
           /\ get(run.calls[i].args, "LogType", "") = "Tail"
           /\ run.calls[i].args.InvocationType = "Event"

\* the messages of the failures for a missing or invalid parameter
ParameterMessages ==
    {"Function name is invalid", "Function name exceeds 64 character limit",
     "Invalid local file path for deployment package",
     "Cannot specify a version with state='present'.",
     "Parameter \"memory_size\" must be between 128 and 1536 and be a multiple of 64.",
     "Parameter required for this action on resource type"}

ParameterFailure == run.status = "fail" /\ run.msg \in ParameterMessages

\* the calls that fetch the current state of a resource
Fetches == {"get_function_configuration", "get_alias", "get_event_source_mapping", "get_policy"}

\* every state-changing call of the run comes after a fetch of the current state
FetchBeforeChange ==
    \A i \in CallsTo(run, Corrective) : \E j \in CallsTo(run, Fetches) : j < i

\* once the run has ended, by exit_json, fail_json or an exception, it makes
\* no call and changes nothing: the only steps are those of the next run
NothingAfterReturn ==
    Ended => /\ aws' = aws
             /\ run'.status = "idle" \/ (run'.status = "running" /\ run'.calls = <<>>)

\* C12, as the specification states it: every run of src/lambda.py (alias,
\* code, config, mapping, policy, version) and of modules/lambda.py follows
\* the order validate, fetch, branch, call, return.  Every failure for a
\* missing or invalid parameter happens before the first AWS call of the run,
\* the fetch of current state happens before any state-changing call, and
\* nothing is called after the result is returned.
ValidateFetchCallReturn ==
    /\ []((Active /\ run.module \in {"lambda", "legacy"})
            => /\ ParameterFailure => run.calls = <<>>
               /\ FetchBeforeChange)
    /\ [][NothingAfterReturn]_vars

\* C12, amended: in every run of src/lambda.py and of modules/lambda.py a
\* failure for a missing or invalid parameter happens before any
\* state-changing call, but not always before the first AWS call: in
\* modules/lambda.py the call iam get_user, and nothing else, precedes
\* validate_params, and in src/lambda.py the only checks made before the
\* fetch are those of main and of the parameters the fetch itself needs, so a
\* parameter required by the branch taken is found missing after the fetch,
\* the one call of that run.  The fetch of current state happens before any
\* state-changing call, and nothing is called after the result is returned.
ChecksBeforeChangesFetchFirst ==
    /\ []((Active /\ run.module \in {"lambda", "legacy"})
            => /\ ParameterFailure
                  => /\ CallsTo(run, Corrective) = {}
                     /\ IF run.module = "lambda"
                        THEN Len(run.calls) = 1 /\ run.calls[1].api = "get_user"
                        ELSE Len(run.calls) <= 1 /\ CallsTo(run, Fetches) = DOMAIN run.calls
               /\ FetchBeforeChange)
    /\ [][NothingAfterReturn]_vars

\* a run of src/lambda.py found a required parameter missing after it had
\* fetched the current state
ParameterMissingAfterFetch ==
    /\ Active /\ run.module = "legacy" /\ ParameterFailure
    /\ Len(run.calls) = 1 /\ run.calls[1].api \in Fetches

\* call number i of run c raised a ClientError that is not a
\* ResourceNotFoundException of a fetch: the service refused the call (the
\* request itself being valid), or the call is iam get_user made with
\* credentials that are not an IAM user's
RaisedClientError(c, i) ==
    \/ c.calls[i].api = "get_user" /\ ~c.iam_user
    \/ /\ c.fault = c.calls[i].api
       /\ c.calls[i].api \in DOMAIN ApiShape => ValidArgs(c.calls[i].api, c.calls[i].args)

\* the run ended in fail_json with the exception of its last call, call number i
ReportedAndStopped(c, i) ==
    /\ i = Len(c.calls)
    /\ c.status = "fail" /\ c.msg # "" /\ c.exc = "AccessDeniedException"

\* C13: there is no failure recovery beyond reporting the SDK's exception.
\* Whenever an SDK call of a run of src/lambda.py, modules/lambda.py
\* (the iam get_user call of AWSConnection included), lambda_alias,
\* lambda_invoke or lambda_s3_event raises a ClientError, other than a
\* ResourceNotFoundException from the fetch of current state, the run ends
\* in fail_json with a message carrying that exception, returns no success
\* result, does not retry and makes no further SDK call.
ClientErrorReportedAndFinal ==
    Active => \A i \in DOMAIN run.calls :
                  RaisedClientError(run, i) => ReportedAndStopped(run, i)

\* what holds of C13: the same, for every call but iam get_user and the
\* fetch of resource type version of src/lambda.py
ClientErrorReportedElsewhere ==
    Active => \A i \in DOMAIN run.calls :
                  (/\ RaisedClientError(run, i)
                   /\ run.calls[i].api # "get_user"
                   /\ ~(run.module = "legacy" /\ run.params.type = "version"
                        /\ run.calls[i].api = "get_function_configuration"))
                  => ReportedAndStopped(run, i)

\* a run of resource type version whose fetch raised a ClientError ended in
\* an IndexError, without fail_json
VersionFetchErrorCrashes ==
    /\ Active /\ run.module = "legacy" /\ run.params.type = "version"
    /\ run.fault = "get_function_configuration"
    /\ Len(run.calls) = 1 /\ RaisedClientError(run, 1)
    /\ run.status = "crash" /\ run.exc = "IndexError"

\* a run of modules/lambda.py whose get_user call raised a ClientError went
\* on to create the function and returned a success result
GetUserErrorIgnored ==
    /\ Active /\ run.module = "lambda" /\ ~run.iam_user
    /\ CallsTo(run, {"create_function"}) # {} /\ run.status = "exit"
    /\ RaisedClientError(run, 1)

\* C14: in every resource type of src/lambda.py (alias, code, config,
\* mapping, policy, version) and in lambda_event_notification of
\* modules/lambda_s3_event.py, when the desired state (present or absent)
\* equals the current state the run has just fetched, the run makes no
\* state-changing AWS call, leaves AWS as it found it and ends with
\* changed=False, whatever the other parameters and whatever the content of
\* the existing resource.  (A run of resource type mapping has a fetched
\* state only with a client that does not check the arguments: its fetch
\* passes Uuid where the API takes UUID, and a client that checks raises a
\* ParamValidationError.)
NothingToDoWhenStatesMatch ==
    (/\ Active /\ run.module \in {"legacy", "lambda_s3_event"}
     /\ run.params.state \in {"present", "absent"}
     /\ run.current_state = run.params.state)
    => /\ CallsTo(run, Corrective) = {}
       /\ aws = run.before
       /\ ~run.changed
       /\ Ended => run.status = "exit" /\ ~run.results.changed

\* a run with state=present found its resource present with other content
\* than the task asks for (the handler of the function, the configurations
\* of the bucket notification) and returned changed=False
PresentWithOtherContentUntouched ==
    /\ Active /\ run.module \in {"legacy", "lambda_s3_event"}
    /\ run.status = "exit" /\ ~run.results.changed
    /\ run.params.state = "present" /\ run.current_state = "present"
    /\ \/ /\ run.module = "legacy" /\ run.params.type = "config"
          /\ truthy(run.params, "handler") /\ aws.fn # None
          /\ aws.fn.Handler # run.params.handler
       \/ /\ run.module = "lambda_s3_event"
          /\ truthy(run.params, "lambda_function_configurations")
          /\ aws.notification.LambdaFunctionConfigurations
                 # check_sub_params(run.params.lambda_function_configurations,
                                    run.keys_order)

\* the lists s and t hold the same elements the same number of times
SameUpToOrder(s, t) ==
    \A x \in {s[i] : i \in DOMAIN s} \cup {t[i] : i \in DOMAIN t} :
        Cardinality({i \in DOMAIN s : s[i] = x}) = Cardinality({i \in DOMAIN t : t[i] = x})

\* one of role, handler, description, timeout, memory_size is not the current
\* value of the function (an omitted description against none counts as the
\* same), or the desired subnet_ids or security_group_ids are not the current
\* lists of VpcConfig up to order
ConfigurationDiffers(params, facts) ==
    \/ \E f \in {<<"role", "Role">>, <<"handler", "Handler">>,
                 <<"description", "Description">>, <<"timeout", "Timeout">>,
                 <<"memory_size", "MemorySize">>} :
           IF f[1] \in DOMAIN params /\ f[2] \in DOMAIN facts
           THEN params[f[1]] # facts[f[2]]
           ELSE f[1] \in DOMAIN params \/ f[2] \in DOMAIN facts
    \/ \E f \in {<<"subnet_ids", "SubnetIds">>, <<"security_group_ids", "SecurityGroupIds">>} :
           ~SameUpToOrder(params[f[1]],
                          IF "VpcConfig" \in DOMAIN facts THEN facts.VpcConfig[f[2]] ELSE <<>>)

\* the run is one of modules/lambda.py with state=present, outside check
\* mode, that found the function existing
UpdatingExistingFunction ==
    /\ Active /\ run.module = "lambda" /\ ~run.check_mode
    /\ run.params.state = "present" /\ run.facts # None

\* C15: in modules/lambda.py, for state=present on an existing function
\* outside check mode, update_function_configuration is called if and only
\* if one of role, handler, description, timeout, memory_size differs from
\* the function's current value or the desired subnet_ids or
\* security_group_ids differ from the current VpcConfig lists when order is
\* ignored; a desired list that is a reordering of the current one never
\* triggers an update.  The call is made only when something differs, and
\* when something differs a run that has ended without the call is one that
\* failed before the comparison, in upload_file or update_function_code.
ConfigurationUpdatedIffDiffers ==
    UpdatingExistingFunction
    => /\ CallsTo(run, {"update_function_configuration"}) # {}
              => ConfigurationDiffers(run.params, run.facts)
       /\ (/\ ConfigurationDiffers(run.params, run.facts)
           /\ \/ run.pc \in {"publish", "return"}
              \/ Ended /\ CallsTo(run, {"update_function_configuration"}) = {})
          => \/ CallsTo(run, {"update_function_configuration"}) # {}
             \/ /\ run.status = "fail"
                /\ run.calls[Len(run.calls)].api \in {"upload_file", "update_function_code"}

\* a task whose subnet_ids are those of the function in another order ended
\* without a call of update_function_configuration
ReorderedSubnetsNotUpdated ==
    /\ UpdatingExistingFunction /\ run.status = "exit"
    /\ "VpcConfig" \in DOMAIN run.facts
    /\ run.params.subnet_ids # run.facts.VpcConfig.SubnetIds
    /\ ~ConfigurationDiffers(run.params, run.facts)
    /\ CallsTo(run, {"update_function_configuration"}) = {}

\* a task asking for another timeout than the function's ended after a call
\* of update_function_configuration
OtherTimeoutUpdated ==
    /\ UpdatingExistingFunction /\ run.status = "exit"
    /\ run.params.timeout # run.facts.Timeout
    /\ CallsTo(run, {"update_function_configuration"}) # {}
====
